---- MODULE Spec2Model ----
(***************************************************************************)
(* Candidate approval workflow of signals-poc: the commit route            *)
(* (signals-fe/src/app/api/approvals/commit/route.ts) running against the  *)
(* Postgres schema of supabase/migrations (0001_init.sql and the           *)
(* quick-wins migration), through the supabase client.                     *)
(*                                                                         *)
(* The supabase client resolves a statement to {data, error}: a statement  *)
(* the database rejects (foreign key, unique index) yields error # null    *)
(* and leaves the tables unchanged; it does not throw.  The ingest handler *)
(* in the same file shows the convention (`if (sessionError) throw         *)
(* sessionError`).  The database is taken to be reachable: a statement     *)
(* fails only when a constraint of the schema rejects it.                  *)
(***************************************************************************)
EXTENDS Integers, Sequences, FiniteSets, TLC

\* ------------------------------------------------------------------ bounds
MaxDecisions == 2    \* decisions carried by all requests of one behaviour
MaxRequests == 2     \* commit requests issued in one behaviour

\* ------------------------------------------------------------ value spaces
Null == "null"       \* JS null / undefined

CandIds == {"c1", "c2"}
SessionIds == {"s1"}
Statuses == {"pending", "approved", "rejected"}

\* lower() of Postgres on the labels that occur
Lower(s) ==
  CASE s = "Pay" -> "pay"
    [] s = "Tax" -> "tax"
    [] OTHER -> s

\* slugify(text) of the quick-wins migration on the labels that occur:
\* strip everything but letters, digits, blanks and '-', blanks to '-', lower
slugify(s) ==
  CASE s = "Pay" -> "pay"
    [] s = "pay" -> "pay"
    [] s = "Tax" -> "tax"
    [] s = "Billing" -> "billing"
    [] s = "Product Development" -> "product-development"
    [] s = "User Feedback" -> "user-feedback"
    [] s = "User Experience" -> "user-experience"
    [] s = "Planning & Timeline" -> "planning-timeline"
    [] s = "Data Management" -> "data-management"
    [] s = "General Discussion" -> "general-discussion"
    [] s = "Budget Discussion" -> "budget-discussion"
    [] OTHER -> ""

\* before-insert trigger on topic_candidates
auto_slugify_topic(new) ==
  IF new.topic_id_suggested = Null \/ new.topic_id_suggested = ""
    THEN [new EXCEPT !.topic_id_suggested = slugify(new.label)]
    ELSE new

\* JS `a || b` on a string-or-undefined value
OrElse(a, b) == IF a = Null \/ a = "" THEN b ELSE a

\* JS truthiness of targetCoreId
Truthy(a) == a # Null /\ a # ""

\* ------------------------------------------------------------------- state
VARIABLES
  scoring_config,    \* auto_chunk_tag_after_approval of the row id = 1
  topic_candidates,  \* candidate_id -> row
  topics,            \* set of [id, label, created_by]
  topic_aliases,     \* set of [alias, topic_id]   (alias_id is a fresh uuid)
  topic_relations,   \* set of [parent_id, child_id, relation_type, rollup_weight]
  events,            \* the events table in insertion order
  pc,                \* position of the request in flight
  n,                 \* decisions.length of the request in flight
  decisions,         \* the decisions array, as far as the loop has read it
  i,                 \* index of the decision being processed (1-based)
  autoChunkTag,      \* the request's local of that name
  candidate,         \* the request's local of that name
  resp,              \* response of the request: Null, "success", "error500"
  mark,              \* Len(events) when the request began
  failed,            \* has the database rejected a write of this request?
  reqNo,             \* requests begun so far; stands for new Date()
  used,              \* decisions carried by the requests begun so far
  sessions,          \* set of [session_id, title, started_at, meeting_type]
  chunks,            \* set of [session_id, k, start_sec, end_sec]
  ingest,            \* the POST /api/ingest request in flight
  batch,             \* the POST /api/ingest/batch request in flight
  scoring_runs,      \* set of [run_id, run_type, run_at]
  topic_scores,      \* set of [run_id, topic_id, total_score]
  scoresPage,        \* state of the scoring viewer
  taxonomyPage,      \* state of the taxonomy page
  probe              \* two deployments: process.env and the last answer of GET /api/env

vars == <<scoring_config, topic_candidates, topics, topic_aliases,
          topic_relations, events, pc, n, decisions, i, autoChunkTag,
          candidate, resp, mark, failed, reqNo, used, sessions, chunks,
          ingest, batch, scoring_runs, topic_scores, scoresPage, taxonomyPage,
          probe>>

\* locals of the commit request
reqvars == <<pc, n, decisions, i, autoChunkTag, candidate, resp, mark, failed,
             reqNo, used>>

\* what the commit route never touches
othervars == <<sessions, chunks, ingest, batch, scoring_runs, topic_scores,
               scoresPage, taxonomyPage, probe>>

dbvars == <<scoring_config, topic_candidates, topics, topic_aliases,
            topic_relations, events>>

\* rows handed to the insert of topic_candidates by ingestion
SeedCandidates ==
  [c \in CandIds |->
     IF c = "c1"
       THEN [label |-> "Pay", topic_id_suggested |-> "", status |-> "pending",
             approver_id |-> Null, decided_at |-> 0]
       ELSE [label |-> "pay", topic_id_suggested |-> "pay-2", status |-> "pending",
             approver_id |-> Null, decided_at |-> 0]]

\* `data` of a select that found no row
NullRow == [label |-> Null, topic_id_suggested |-> Null]

\* a JSON null in the decisions array
NullDecision ==
  [id |-> Null, status |-> Null, action |-> Null, targetCoreId |-> Null,
   sessionId |-> Null]

\* the session the seeded candidates came from
\* new Date().toISOString(): the time of the call, no calendar date of a file
Now == [month |-> 0, day |-> 0]

SeedSessions ==
  {[session_id |-> "s1", title |-> "seed", started_at |-> Now,
    meeting_type |-> "dev_ingest"]}

\* no ingest request in flight
IdleIngest ==
  [pc |-> "idle", no |-> 0, raw |-> Null, session_id |-> Null, failure |-> Null,
   basicCandidates |-> <<>>, resp |-> Null]

\* no batch request in flight
IdleBatch ==
  [pc |-> "idle", no |-> 0, file |-> Null, parsed |-> <<>>, k |-> 0,
   session_id |-> Null, failure |-> Null, made |-> <<>>, synthesized |-> <<>>,
   results |-> <<>>, successCount |-> 0, errorCount |-> 0, resp |-> Null]

\* a run the scoring job made, and the score it wrote
SeedRuns == {[run_id |-> "r1", run_type |-> "nightly", run_at |-> 1, notes |-> Null]}

SeedScores == {[run_id |-> "r1", topic_id |-> "tax", total_score |-> 2]}

\* useState of ScoresPage before the effect has run
UnmountedScores ==
  [pc |-> "unmounted", scores |-> <<>>, latestRunId |-> Null, isLoading |-> TRUE,
   isTriggering |-> FALSE]

\* useState of TaxonomyPage before the effect has run; data holds the three
\* answers load() is working on, from the answers the topics shown were
\* built from
UnmountedTaxonomy ==
  [pc |-> "unmounted", topics |-> <<>>, isLoading |-> TRUE,
   data |-> << <<>>, <<>>, <<>> >>, from |-> << <<>>, <<>>, <<>> >>]

\* .env.local as the setup guide has it written
SetupEnv ==
  [NEXT_PUBLIC_SUPABASE_URL |-> "https://ref.supabase.co",
   NEXT_PUBLIC_SUPABASE_PUBLISHABLE_KEY |-> "pk-1", SUPABASE_SECRET_KEY |-> "sk-1"]

\* GET /api/env was not called since the process started
NotAsked == [asked |-> FALSE, url |-> Null, anon |-> "false", service |-> "false"]

Init ==
  /\ scoring_config = FALSE
  /\ topic_candidates = [c \in CandIds |-> auto_slugify_topic(SeedCandidates[c])]
  /\ topics = {[id |-> "tax", label |-> "Tax", created_by |-> "seed"],
               [id |-> "ops", label |-> "ops", created_by |-> "seed"]}
  /\ topic_aliases = {}
  /\ topic_relations = {}
  /\ events = <<>>
  /\ pc = "idle"
  /\ n = 0
  /\ decisions = <<>>
  /\ i = 0
  /\ autoChunkTag = FALSE
  /\ candidate = NullRow
  /\ resp = Null
  /\ mark = 0
  /\ failed = FALSE
  /\ reqNo = 0
  /\ used = 0
  /\ sessions = SeedSessions
  /\ chunks = {}
  /\ ingest = IdleIngest
  /\ batch = IdleBatch
  /\ scoring_runs = SeedRuns
  /\ topic_scores = SeedScores
  /\ scoresPage = UnmountedScores
  /\ taxonomyPage = UnmountedTaxonomy
  /\ probe = [env |-> <<SetupEnv, SetupEnv>>, resp |-> <<NotAsked, NotAsked>>]

\* ------------------------------------------------------ database statements
TopicIds(tp) == {t.id : t \in tp}

\* insert into topic_aliases: the upsert names no onConflict column and the
\* row carries no alias_id, so the key it resolves on is a fresh uuid and the
\* statement is an insert; it is rejected by the foreign key on topic_id, by
\* `alias text unique` and by uq_topic_aliases (topic_id, lower(alias))
AliasAccepted(al, tp, row) ==
  /\ row.topic_id \in TopicIds(tp)
  /\ \A a \in al : a.alias # row.alias
  /\ \A a \in al : ~(a.topic_id = row.topic_id /\ Lower(a.alias) = Lower(row.alias))

UpsertAlias(al, tp, row) == IF AliasAccepted(al, tp, row) THEN al \cup {row} ELSE al

\* a table that refuses a topic as its own parent
RelationAccepted_NoLoop(tp, row) ==
  /\ row.parent_id \in TopicIds(tp)
  /\ row.child_id \in TopicIds(tp)
  /\ row.parent_id # row.child_id

\* upsert into topic_relations on its primary key (parent, child, type);
\* both ends must reference topics(id)
RelationAccepted(tp, row) ==
  /\ row.parent_id \in TopicIds(tp)
  /\ row.child_id \in TopicIds(tp)

SameEdge(r, row) ==
  /\ r.parent_id = row.parent_id
  /\ r.child_id = row.child_id
  /\ r.relation_type = row.relation_type

UpsertRelation(rel, tp, row) ==
  IF RelationAccepted(tp, row)
    THEN {r \in rel : ~SameEdge(r, row)} \cup {row}
    ELSE rel

\* upsert into topics on its primary key id; uq_topics_label (lower(label))
\* rejects the row when another topic carries the label in any case
\* the label index built on label instead of lower(label)
TopicAccepted_CaseSensitive(tp, row) ==
  \A t \in tp : t.id # row.id => t.label # row.label

TopicAccepted(tp, row) ==
  \A t \in tp : t.id # row.id => Lower(t.label) # Lower(row.label)

UpsertTopic(tp, row) ==
  IF TopicAccepted(tp, row)
    THEN {t \in tp : t.id # row.id} \cup {row}
    ELSE tp

\* update topic_candidates set ... where candidate_id = id
UpdateCandidate(tc, id, status, now) ==
  [c \in DOMAIN tc |->
     IF c = id
       THEN [tc[c] EXCEPT !.status = status, !.decided_at = now, !.approver_id = "ui"]
       ELSE tc[c]]

\* select label, topic_id_suggested ... .single()
SelectCandidateRow(tc, id) ==
  IF id \in DOMAIN tc
    THEN [label |-> tc[id].label, topic_id_suggested |-> tc[id].topic_id_suggested]
    ELSE NullRow

\* rows the three branches hand to the database
AliasRow(d, cand) ==
  [alias |-> OrElse(cand.label, "unknown"), topic_id |-> d.targetCoreId]

RelationRow(d, cand) ==
  [parent_id |-> d.targetCoreId, child_id |-> OrElse(cand.topic_id_suggested, "unknown"),
   relation_type |-> "parent_child", rollup_weight |-> 1]

TopicRow(d, cand) ==
  [id |-> OrElse(cand.topic_id_suggested, "unknown"),
   label |-> OrElse(cand.label, "unknown"), created_by |-> "ui"]

\* which branch of lines 39-60 a decision takes
Branch(d) ==
  IF d.action = "alias" /\ Truthy(d.targetCoreId) THEN "alias"
  ELSE IF d.action = "subtopic" /\ Truthy(d.targetCoreId) THEN "subtopic"
  ELSE "topic"

\* event rows
\* the decision event without the chosen action in its payload
StatusEvent_NoAction(d) ==
  [actor |-> "ui", event_type |-> "candidate_status_changed",
   candidate_id |-> d.id, session_id |-> d.sessionId,
   payload_json |-> [to |-> d.status, action |-> Null,
                     targetCoreId |-> d.targetCoreId]]

StatusEvent(d) ==
  [actor |-> "ui", event_type |-> "candidate_status_changed",
   candidate_id |-> d.id, session_id |-> d.sessionId,
   payload_json |-> [to |-> d.status, action |-> d.action,
                     targetCoreId |-> d.targetCoreId]]

\* the summary event counting one decision too few
AppliedEvent_ShortCount(ds) ==
  [actor |-> "ui", event_type |-> "taxonomy_applied",
   candidate_id |-> Null, session_id |-> ds[1].sessionId,
   payload_json |-> [count |-> Len(ds) - 1]]

AppliedEvent(ds) ==
  [actor |-> "ui", event_type |-> "taxonomy_applied",
   candidate_id |-> Null, session_id |-> ds[1].sessionId,
   payload_json |-> [count |-> Len(ds)]]

ChunkTagEvent(ds) ==
  [actor |-> "ui", event_type |-> "chunk_tag_requested",
   candidate_id |-> Null, session_id |-> ds[1].sessionId,
   payload_json |-> [auto_triggered |-> TRUE]]

\* ------------------------------------------------------------ request body
\* what a rejected or pending decision carries besides its status reaches
\* the event payload only, so two shapes of it are enumerated
Choices(status) ==
  IF status = "approved" THEN
    {<<"none", Null>>, <<"alias", Null>>, <<"alias", "tax">>, <<"alias", "pay">>,
     <<"subtopic", "tax">>, <<"subtopic", "pay">>}
  ELSE IF status = "rejected" THEN {<<"none", Null>>, <<"alias", "tax">>}
  ELSE {<<"none", Null>>}

Decision ==
  UNION {{[id |-> c, status |-> s, action |-> a[1], targetCoreId |-> a[2],
           sessionId |-> ss] : c \in CandIds, ss \in SessionIds, a \in Choices(s)} :
         s \in Statuses}

\* elements of the decisions array
Elements == Decision \cup {NullDecision}


\* ------------------------------------------------------------------ actions
\* `for (const decision of decisions)`: where control goes for index k
LoopHead(k, len) == IF k <= len THEN "update" ELSE "applied"

\* a catch block that undoes the request's candidate updates and event rows
Catch_Rollback ==
  /\ pc' = "done"
  /\ resp' = "error500"
  /\ topic_candidates' =
       [c \in DOMAIN topic_candidates |->
          IF topic_candidates[c].decided_at = reqNo
            THEN [topic_candidates[c] EXCEPT !.status = "pending"]
            ELSE topic_candidates[c]]
  /\ events' = SubSeq(events, 1, mark)
  /\ UNCHANGED <<topics, topic_aliases, topic_relations>>

\* the catch block of lines 99-102: it answers 500 and writes nothing
Catch ==
  /\ pc' = "done"
  /\ resp' = "error500"
  /\ UNCHANGED <<topic_candidates, topics, topic_aliases, topic_relations, events>>

\* lines 4-16: read the body (len elements), read the settings row
PostWithin(len, requests, total) ==
  /\ pc \in {"idle", "done"}
  /\ reqNo < requests
  /\ used + len <= total
  /\ reqNo' = reqNo + 1
  /\ used' = used + len
  /\ n' = len
  /\ decisions' = <<>>
  /\ i' = 1
  /\ candidate' = NullRow
  /\ mark' = Len(events)
  /\ failed' = FALSE
  /\ autoChunkTag' = scoring_config
  /\ pc' = LoopHead(1, len)
  /\ resp' = Null
  /\ UNCHANGED dbvars
  /\ UNCHANGED othervars

Post(len) == PostWithin(len, MaxRequests, MaxDecisions)

\* a loop that applies the action of every decision
AfterUpdate_Always(status) == "select"

\* line 31: only an approved decision goes on to the taxonomy
AfterUpdate(status) == IF status = "approved" THEN "select" ELSE "event"

\* lines 18-29: the loop reads element i of the body, d; destructuring a
\* null throws; otherwise the candidate row is updated
UpdateStatus(d) ==
  /\ pc = "update"
  /\ decisions' = Append(decisions, d)
  /\ IF d = NullDecision
       THEN Catch
       ELSE /\ topic_candidates' =
                 UpdateCandidate(topic_candidates, d.id, d.status, reqNo)
            /\ pc' = AfterUpdate(d.status)
            /\ resp' = resp
            /\ UNCHANGED <<topics, topic_aliases, topic_relations, events>>
  /\ UNCHANGED <<scoring_config, n, i, autoChunkTag, candidate, mark, failed,
                 reqNo, used>>
  /\ UNCHANGED othervars

\* lines 32-37
SelectCandidate ==
  /\ pc = "select"
  /\ candidate' = SelectCandidateRow(topic_candidates, decisions[i].id)
  /\ pc' = "write"
  /\ UNCHANGED <<dbvars, n, decisions, i, autoChunkTag, resp, mark, failed, reqNo, used>>
  /\ UNCHANGED othervars

\* did the database take the row of decision d?
Accepted(d, cand, tp, al) ==
  CASE Branch(d) = "alias" -> AliasAccepted(al, tp, AliasRow(d, cand))
    [] Branch(d) = "subtopic" -> RelationAccepted(tp, RelationRow(d, cand))
    [] OTHER -> TopicAccepted(tp, TopicRow(d, cand))

\* lines 39-60; no statement of the handler reads the {error} of a rejected
\* upsert, so control goes on to the event insert either way
ApplyTaxonomy ==
  /\ pc = "write"
  /\ LET d == decisions[i]
         b == Branch(d)
         ok == Accepted(d, candidate, topics, topic_aliases)
     IN
       /\ topic_aliases' =
            IF b = "alias"
              THEN UpsertAlias(topic_aliases, topics, AliasRow(d, candidate))
              ELSE topic_aliases
       /\ topic_relations' =
            IF b = "subtopic"
              THEN UpsertRelation(topic_relations, topics, RelationRow(d, candidate))
              ELSE topic_relations
       /\ topics' =
            IF b = "topic"
              THEN UpsertTopic(topics, TopicRow(d, candidate))
              ELSE topics
       /\ failed' = (failed \/ ~ok)
       /\ pc' = "event"
       /\ resp' = resp
  /\ UNCHANGED <<scoring_config, topic_candidates, events, n, decisions, i,
                 autoChunkTag, candidate, mark, reqNo, used>>
  /\ UNCHANGED othervars

\* lines 63-70 and the loop's step
LogDecision ==
  /\ pc = "event"
  /\ events' = Append(events, StatusEvent(decisions[i]))
  /\ i' = i + 1
  /\ pc' = LoopHead(i + 1, n)
  /\ UNCHANGED <<scoring_config, topic_candidates, topics, topic_aliases,
                 topic_relations, n, decisions, autoChunkTag, candidate, resp, mark,
                 failed, reqNo, used>>
  /\ UNCHANGED othervars

\* the handler without its summary insert
LogApplied_Skipped ==
  /\ pc = "applied"
  /\ pc' = "chunktag"
  /\ UNCHANGED <<dbvars, n, decisions, i, autoChunkTag, candidate, resp, mark,
                 failed, reqNo, used>>
  /\ UNCHANGED othervars

\* lines 73-81
LogApplied ==
  /\ pc = "applied"
  /\ events' = IF n > 0 THEN Append(events, AppliedEvent(decisions))
               ELSE events
  /\ pc' = "chunktag"
  /\ UNCHANGED <<scoring_config, topic_candidates, topics, topic_aliases,
                 topic_relations, n, decisions, i, autoChunkTag, candidate, resp, mark,
                 failed, reqNo, used>>
  /\ UNCHANGED othervars

\* lines 83-98 without the settings test
AutoTrigger_Unconditional ==
  /\ pc = "chunktag"
  /\ events' = IF n > 0 THEN Append(events, ChunkTagEvent(decisions)) ELSE events
  /\ pc' = "done"
  /\ resp' = "success"
  /\ UNCHANGED <<scoring_config, topic_candidates, topics, topic_aliases,
                 topic_relations, n, decisions, i, autoChunkTag, candidate, mark,
                 failed, reqNo, used>>
  /\ UNCHANGED othervars

\* lines 83-98
AutoTrigger ==
  /\ pc = "chunktag"
  /\ events' = IF autoChunkTag /\ n > 0
                 THEN Append(events, ChunkTagEvent(decisions))
                 ELSE events
  /\ pc' = "done"
  /\ resp' = "success"
  /\ UNCHANGED <<scoring_config, topic_candidates, topics, topic_aliases,
                 topic_relations, n, decisions, i, autoChunkTag, candidate, mark,
                 failed, reqNo, used>>
  /\ UNCHANGED othervars

\* SettingsPage.save: upsert of the row id = 1
SaveSettings(v) ==
  /\ scoring_config # v
  /\ scoring_config' = v
  /\ UNCHANGED <<topic_candidates, topics, topic_aliases, topic_relations, events,
                 pc, n, decisions, i, autoChunkTag, candidate, resp, mark, failed,
                 reqNo, used>>
  /\ UNCHANGED othervars

Next ==
  \/ \E len \in 0..MaxDecisions : Post(len)
  \/ \E d \in Elements : UpdateStatus(d)
  \/ SelectCandidate
  \/ ApplyTaxonomy
  \/ LogDecision
  \/ LogApplied
  \/ AutoTrigger
  \/ \E v \in BOOLEAN : SaveSettings(v)

Spec == Init /\ [][Next]_vars


\* ------------------------------------------------------- the commit request
\* event rows the request in flight (or just finished) has written
Written == Len(events) - mark

Row(k) == events[mark + k]

Returned == pc = "done" /\ resp = "success"

\* the last decision for candidate c among the first m
C3_LastFor(c, m) ==
  CHOOSE k \in 1..m :
    /\ decisions[k].id = c
    /\ \A j \in (k + 1)..m : decisions[j].id # c

\* the candidate row a decision names
Cand(d) == topic_candidates[d.id]

\* C1 as stated: a request that returns success has written N+1 event rows
\* when N > 0 and none when N = 0, whatever the settings row holds.
C1_EventCount ==
  Returned => Written = (IF n > 0 THEN n + 1 ELSE 0)

\* C1 amended: N+1 rows when the request read the auto-chunk-tag flag as
\* unset, N+2 when it read it as set, none when N = 0.
C1_EventCountByFlag ==
  Returned => Written = (IF n = 0 THEN 0 ELSE IF autoChunkTag THEN n + 2 ELSE n + 1)

C1_Witness ==
  /\ Returned
  /\ n = 2
  /\ autoChunkTag
  /\ Written = 4

\* C2: a write the database rejects ends the request there with the 500
\* response.
C2_AbortOnFailure ==
  failed => (pc = "done" /\ resp = "error500")

\* what a failed request leaves behind
C3_FailureKeeps ==
  resp = "error500" =>
    /\ Written = i - 1
    /\ \A k \in 1..(i - 1) :
         /\ Row(k).event_type = "candidate_status_changed"
         /\ Row(k).candidate_id = decisions[k].id
    /\ \A c \in CandIds :
         (\E k \in 1..(i - 1) : decisions[k].id = c) =>
           /\ topic_candidates[c].status = decisions[C3_LastFor(c, i - 1)].status
           /\ topic_candidates[c].decided_at = reqNo

\* the loop index moves by one, at the event insert; failing changes no table
C3_Step ==
  /\ pc \notin {"idle", "done"} =>
       \/ i' = i
       \/ i' = i + 1 /\ pc = "event" /\ Len(events') = Len(events) + 1
  /\ (resp' = "error500" /\ resp # "error500") =>
       /\ topic_candidates' = topic_candidates
       /\ topics' = topics
       /\ topic_aliases' = topic_aliases
       /\ topic_relations' = topic_relations
       /\ events' = events

\* C3: decisions are applied one after another in list order, and a request
\* that fails at decision k leaves what decisions 1..k-1 wrote in place: the
\* failing step changes no table, the candidates decided before it keep the
\* status of their last decision, and the events of those decisions stand in
\* list order.
C3_SequentialNoRollback == [](C3_FailureKeeps) /\ [][C3_Step]_vars

C3_Witness ==
  /\ resp = "error500"
  /\ i = 2
  /\ decisions[1].status = "approved"
  /\ topic_candidates[decisions[1].id].status = "approved"
  /\ [id |-> "pay", label |-> "Pay", created_by |-> "ui"] \in topics
  /\ Written = 1

\* C4: after a request returns, every approved alias decision with a target
\* has its alias row (candidate label -> target topic), and no other alias of
\* that topic differs from it only in case.
C4_AliasRowExists ==
  Returned =>
    \A k \in 1..n :
      LET d == decisions[k] IN
        (d.status = "approved" /\ d.action = "alias" /\ Truthy(d.targetCoreId)) =>
          /\ [alias |-> Cand(d).label, topic_id |-> d.targetCoreId] \in topic_aliases
          /\ \A a \in topic_aliases :
               (a.topic_id = d.targetCoreId /\ Lower(a.alias) = Lower(Cand(d).label))
                 => a.alias = Cand(d).label

\* C5: after a request returns, every approved subtopic decision with a target
\* has exactly one parent_child relation row from the target to the
\* candidate's suggested topic id.
C5_RelationRowExists ==
  Returned =>
    \A k \in 1..n :
      LET d == decisions[k] IN
        (d.status = "approved" /\ d.action = "subtopic" /\ Truthy(d.targetCoreId)) =>
          Cardinality({r \in topic_relations :
                         /\ r.parent_id = d.targetCoreId
                         /\ r.child_id = Cand(d).topic_id_suggested
                         /\ r.relation_type = "parent_child"}) = 1


\* the decision takes the new-topic branch: approved, and neither an alias
\* with a target nor a subtopic with a target
NewTopicDecision(d) ==
  /\ d.status = "approved"
  /\ ~(d.action = "alias" /\ Truthy(d.targetCoreId))
  /\ ~(d.action = "subtopic" /\ Truthy(d.targetCoreId))

\* C6: after a request returns, every approved decision of the
\* new-topic branch has a topics row with the candidate's suggested id and
\* label.
C6_TopicRowExists ==
  Returned =>
    \A k \in 1..n :
      NewTopicDecision(decisions[k]) =>
        \E t \in topics :
          /\ t.id = Cand(decisions[k]).topic_id_suggested
          /\ t.label = Cand(decisions[k]).label

C7_Decided == {"approved", "rejected", "merged"}

\* a step takes no candidate from a decided status to another decided one
C7_OneWayStep ==
  \A c \in CandIds :
    (topic_candidates[c].status \in C7_Decided
       /\ topic_candidates'[c].status # topic_candidates[c].status)
      => topic_candidates'[c].status = "pending"

\* C7: over any sequence of commit requests a candidate in a decided status
\* never moves to another decided status; the only change out of a decided
\* status is back to pending.
C7_OneWay == [][C7_OneWayStep]_vars

\* C8: each decision the loop has finished with has exactly one
\* candidate_status_changed row, naming its candidate, its target status and
\* its action, whatever the status and the branch.
C8_OneEventPerDecision ==
  pc # "idle" =>
    /\ {k \in 1..Written : Row(k).event_type = "candidate_status_changed"} = 1..(i - 1)
    /\ \A k \in 1..(i - 1) :
         /\ Row(k).candidate_id = decisions[k].id
         /\ Row(k).payload_json.to = decisions[k].status
         /\ Row(k).payload_json.action = decisions[k].action

C8_Witness ==
  /\ Returned
  /\ n = 2
  /\ decisions[1].status = "rejected"
  /\ decisions[2].status = "approved"
  /\ decisions[2].action = "subtopic"
  /\ Written >= 2

\* C9: the taxonomy_applied row of a request is written once, after the
\* loop has finished all N decisions and their N event rows, with count = N;
\* a request that returns with N > 0 has written it.
C9_AppliedAfterAll ==
  /\ \A k \in 1..Written :
       Row(k).event_type = "taxonomy_applied" =>
         /\ n > 0
         /\ k = n + 1
         /\ i = n + 1
         /\ Row(k).payload_json.count = n
         /\ \A j \in 1..n : Row(j).event_type = "candidate_status_changed"
  /\ (Returned /\ n > 0) => Row(n + 1).event_type = "taxonomy_applied"

C9_Witness ==
  /\ Returned
  /\ n = 2
  /\ Row(3).event_type = "taxonomy_applied"
  /\ Row(3).payload_json.count = 2

\* where the chunk_tag_requested row stands, and when a returned request has it
C10_Rows ==
  /\ \A k \in 1..Written :
       Row(k).event_type = "chunk_tag_requested" =>
         /\ k = n + 2
         /\ Row(n + 1).event_type = "taxonomy_applied"
  /\ Returned =>
       ((\E k \in 1..Written : Row(k).event_type = "chunk_tag_requested")
          <=> (autoChunkTag /\ n > 0))

\* the flag is read once, when the request starts; the last step writes at
\* most one row and no other table
C10_Step ==
  /\ (pc \in {"idle", "done"} /\ pc' \notin {"idle", "done"}) =>
       autoChunkTag' = scoring_config
  /\ pc \notin {"idle", "done"} => autoChunkTag' = autoChunkTag
  /\ pc = "chunktag" =>
       /\ topic_candidates' = topic_candidates
       /\ topics' = topics
       /\ topic_aliases' = topic_aliases
       /\ topic_relations' = topic_relations
       /\ Len(events') <= Len(events) + 1

\* C10: a request writes a chunk_tag_requested row exactly when the settings
\* row it read has the flag set and the batch is not empty; the row is the
\* one after taxonomy_applied, there is at most one, and the step that writes
\* it touches no other table.
C10_ChunkTagIffFlag == [](C10_Rows) /\ [][C10_Step]_vars

C10_Witness ==
  /\ Returned
  /\ n = 1
  /\ Written = 3
  /\ Row(3).event_type = "chunk_tag_requested"


\* no two topics rows carry the same label ignoring case
C11_LabelsUnique ==
  \A t1, t2 \in topics : Lower(t1.label) = Lower(t2.label) => t1 = t2

\* the new-topic upsert of a label another topic carries in some letter case
\* leaves topics as it was
C11_Step ==
  (pc = "write" /\ pc' = "event" /\ NewTopicDecision(decisions[i])
     /\ \E t \in topics :
          /\ t.id # Cand(decisions[i]).topic_id_suggested
          /\ Lower(t.label) = Lower(Cand(decisions[i]).label))
    => topics' = topics

\* C11: in every state reachable by commit requests no two topics rows have
\* labels equal ignoring case, and an approval that would add a topic whose
\* label differs from an existing one only in case adds no topic row.
C11_TopicLabelsUnique == [](C11_LabelsUnique) /\ [][C11_Step]_vars

C11_Witness ==
  /\ pc = "event"
  /\ decisions[i].id = "c2"
  /\ NewTopicDecision(decisions[i])
  /\ \E t \in topics : t.id = "pay" /\ t.label = "Pay"
  /\ \A t \in topics : t.id # "pay-2"
  /\ failed


\* ---------------------------------------------------------------- ingestion
MaxIngests == 1      \* POST /api/ingest requests in one behaviour

\* keywords of the fallback scan, as a text may spell them
Words == {"Feature", "timeline", "user", "feedback"}

\* String.toLowerCase on Words
toLowerCase(w) == IF w = "Feature" THEN "feature" ELSE w

\* trimmed lengths of the pieces a text splits into at . ! ?
SentenceShapes == {<<>>, <<15>>, <<30, 8, 30, 30>>}

\* a text is abstracted to the keywords it contains and its sentence lengths
Texts ==
  {[kind |-> "text", words |-> w, sentences |-> ss] :
     w \in SUBSET Words, ss \in SentenceShapes}

\* `raw` of the request body: a string, or JSON null, or a JSON number
RawValues ==
  Texts \cup {[kind |-> k, words |-> {}, sentences |-> <<>>] : k \in {"null", "number"}}

\* text.includes(k) for text = raw.toLowerCase()
includes(raw, k) == k \in {toLowerCase(w) : w \in raw.words}

IncludesAny(raw, ks) == \E k \in ks : includes(raw, k)

\* lines 12-53: no raw of the model is a JSON meeting object, so every branch
\* ends in the dev_ingest wrapper
parseMeetingContent(raw) == [transcript |-> raw, meeting_type |-> "dev_ingest"]

\* gen_random_uuid() for sessions and for topic_candidates
NewSessionId(ss) == "s" \o ToString(Cardinality(ss) + 1)

NewCandidateId(tc, k) ==
  "n" \o ToString(Cardinality(DOMAIN tc) - Cardinality(CandIds) + k)

\* insert into sessions ... select().single()
InsertSession(ss, title, started_at, meeting_type) ==
  ss \cup {[session_id |-> NewSessionId(ss), title |-> title,
            started_at |-> started_at, meeting_type |-> meeting_type]}

\* insert into topic_candidates of a list of rows: one statement, so one
\* row without evidence (not null) rejects them all; the trigger fills the
\* suggested id
CandidatesAccepted(rows) == \A k \in 1..Len(rows) : rows[k].evidence # Null

InsertCandidates(tc, rows) ==
  IF CandidatesAccepted(rows)
    THEN tc @@ [id \in {NewCandidateId(tc, k) : k \in 1..Len(rows)} |->
                  LET k == CHOOSE j \in 1..Len(rows) : NewCandidateId(tc, j) = id
                  IN auto_slugify_topic(
                       [label |-> rows[k].label,
                        topic_id_suggested |-> rows[k].topic_id_suggested,
                        status |-> "pending", approver_id |-> Null, decided_at |-> 0,
                        session_id |-> rows[k].session_id,
                        evidence |-> rows[k].evidence, why_new |-> rows[k].why_new])]
    ELSE tc

\* sentences.slice(i, i + 2).join('. ').trim().length
WindowLength(ss, j) ==
  IF j + 1 <= Len(ss) THEN ss[j] + 2 + ss[j + 1] ELSE ss[j]

\* lines 285-309 (the batch route has the same at 292-315): sentences longer
\* than 10, two to a chunk, chunks longer than 20; one chunk of the whole
\* text when none is left
LongerThan10(x) == x > 10

basicChunks(sid, raw) ==
  LET ss == SelectSeq(raw.sentences, LongerThan10)
      made == {[session_id |-> sid, k |-> j - 1, start_sec |-> (j - 1) * 10,
                end_sec |-> (j + 1) * 10, text |-> "sentences"] :
                 j \in {x \in 1..Len(ss) : x % 2 = 1 /\ WindowLength(ss, x) > 20}}
  IN IF made = {}
       THEN {[session_id |-> sid, k |-> 0, start_sec |-> 0, end_sec |-> Null,
              text |-> "substring"]}
       ELSE made

\* one candidate of the fallback
BasicCandidate(sid, label, why_new) ==
  [session_id |-> sid, topic_id_suggested |-> Null, label |-> label,
   evidence |-> "raw", why_new |-> why_new, status |-> "pending"]

\* the keyword test of the first group without 'feature'
ProductGroup_NoFeature == {"product", "development"}

\* lines 320, 331, 342: the three keyword groups
ProductGroup == {"product", "development", "feature"}

FeedbackGroup == {"user", "feedback", "customer"}

PlanningGroup == {"timeline", "priority", "plan"}

\* the heuristic without its generic candidate
basicCandidates_NoGeneric(sid, raw) ==
  (IF IncludesAny(raw, ProductGroup)
     THEN <<BasicCandidate(sid, "Product Development",
                           "Contains product development discussion")>>
     ELSE <<>>)
  \o (IF IncludesAny(raw, FeedbackGroup)
        THEN <<BasicCandidate(sid, "User Feedback",
                              "Contains user feedback discussion")>>
        ELSE <<>>)
  \o (IF IncludesAny(raw, PlanningGroup)
        THEN <<BasicCandidate(sid, "Planning & Timeline",
                              "Contains planning and timeline discussion")>>
        ELSE <<>>)

\* lines 316-363
basicCandidates(sid, raw) ==
  LET found ==
        (IF IncludesAny(raw, ProductGroup)
           THEN <<BasicCandidate(sid, "Product Development",
                                 "Contains product development discussion")>>
           ELSE <<>>)
        \o (IF IncludesAny(raw, FeedbackGroup)
              THEN <<BasicCandidate(sid, "User Feedback",
                                    "Contains user feedback discussion")>>
              ELSE <<>>)
        \o (IF IncludesAny(raw, PlanningGroup)
              THEN <<BasicCandidate(sid, "Planning & Timeline",
                                    "Contains planning and timeline discussion")>>
              ELSE <<>>)
  IN IF Len(found) = 0
       THEN <<BasicCandidate(sid, "General Discussion",
                             "Basic topic detection (pipeline failed)")>>
       ELSE found


\* what the two pipeline commands leave in the output directory: chunks.json
\* with c chunks (0: no file) and new_topics.json with the labels t, or
\* with a text JSON.parse throws on
PipelineOutputs ==
  {[chunks |-> c, new_topics |-> t, malformed |-> FALSE] :
     c \in 0..1, t \in {<<>>, <<"Billing">>}}
  \cup {[chunks |-> 1, new_topics |-> <<>>, malformed |-> TRUE]}

\* how a child process can end by itself
ExitKinds == {"exit0", "exit1", "signal"}

\* the three responses of the route
IngestOk ==
  [status |-> 200, success |-> TRUE, pipeline_success |-> TRUE, warning |-> Null]

IngestWarning ==
  [status |-> 200, success |-> TRUE, pipeline_success |-> FALSE,
   warning |-> "Pipeline failed, using basic processing"]

IngestError ==
  [status |-> 500, success |-> FALSE, pipeline_success |-> Null, warning |-> Null]

\* lines 258-270 and 370-383
IngestedEvent(sid, nc, nk, ok) ==
  [actor |-> "ui", event_type |-> "session_ingested", candidate_id |-> Null,
   session_id |-> sid,
   payload_json |-> [chunks_created |-> nc, candidates_created |-> nk,
                     mentions_created |-> 0, pipeline_success |-> ok]]

\* what the ingest route never touches
ingestframe == <<scoring_config, topics, topic_aliases, topic_relations, reqvars,
                 batch, scoring_runs, topic_scores, scoresPage, taxonomyPage,
                 probe>>

\* lines 55-102: read the body, insert the session, start detect-new-topics
IngestPost(raw) ==
  /\ ingest.pc \in {"idle", "done"}
  /\ ingest.no < MaxIngests
  /\ sessions' = InsertSession(sessions, "title", Now,
                               parseMeetingContent(raw).meeting_type)
  /\ ingest' = [pc |-> "detect", no |-> ingest.no + 1, raw |-> raw,
                session_id |-> NewSessionId(sessions), failure |-> Null,
                basicCandidates |-> <<>>, resp |-> Null]
  /\ UNCHANGED <<topic_candidates, chunks, events, ingestframe>>

\* lines 107-120: a command ends by itself; exit code 0 resolves execAsync,
\* anything else rejects it
IngestExecExit(kind) ==
  /\ ingest.pc \in {"detect", "chunktag"}
  /\ ingest' =
       IF kind = "exit0"
         THEN [ingest EXCEPT !.pc = IF ingest.pc = "detect" THEN "chunktag"
                                                            ELSE "results"]
         ELSE [ingest EXCEPT !.pc = "fallback", !.failure = kind]
  /\ UNCHANGED <<sessions, topic_candidates, chunks, events, ingestframe>>

\* exec started without its timeout option: the timer never fires
IngestExecTimeout_NoTimer ==
  /\ FALSE
  /\ UNCHANGED vars

\* { timeout: 30000 }: after 30 s the child is killed and execAsync rejects
IngestExecTimeout ==
  /\ ingest.pc \in {"detect", "chunktag"}
  /\ ingest' = [ingest EXCEPT !.pc = "fallback", !.failure = "timeout"]
  /\ UNCHANGED <<sessions, topic_candidates, chunks, events, ingestframe>>

\* rows of lines 140-161 and 182-189
PipelineChunks(sid, out) ==
  {[session_id |-> sid, k |-> j, start_sec |-> 0, end_sec |-> Null,
    text |-> "chunks.json"] : j \in 1..out.chunks}

PipelineCandidates(sid, out) ==
  [k \in 1..Len(out.new_topics) |->
     [session_id |-> sid, topic_id_suggested |-> Null, label |-> out.new_topics[k],
      evidence |-> "", why_new |-> "Detected by pipeline", status |-> "pending"]]

\* lines 125-279: insert what the pipeline wrote, log, answer; JSON.parse of
\* a malformed new_topics.json throws after the chunks were inserted, and
\* raw.length of a null raw throws after all inserts: both land in the fallback
IngestResults(out) ==
  /\ ingest.pc = "results"
  /\ chunks' = chunks \cup PipelineChunks(ingest.session_id, out)
  /\ topic_candidates' =
       IF out.malformed
         THEN topic_candidates
         ELSE InsertCandidates(topic_candidates,
                               PipelineCandidates(ingest.session_id, out))
  /\ IF out.malformed \/ ingest.raw.kind = "null"
       THEN /\ ingest' = [ingest EXCEPT !.pc = "fallback", !.failure = "throw"]
            /\ UNCHANGED events
       ELSE /\ events' = Append(events, IngestedEvent(ingest.session_id, out.chunks,
                                                      Len(out.new_topics), TRUE))
            /\ ingest' = [ingest EXCEPT !.pc = "done", !.resp = IngestOk]
  /\ UNCHANGED <<sessions, ingestframe>>

\* the fallback refusing to run for a timeout
IngestFallback_NotOnTimeout ==
  /\ ingest.pc = "fallback"
  /\ IF ingest.raw.kind # "text" \/ ingest.failure = "timeout"
       THEN /\ ingest' = [ingest EXCEPT !.pc = "done", !.resp = IngestError]
            /\ UNCHANGED <<chunks, topic_candidates, events>>
       ELSE /\ chunks' = chunks \cup basicChunks(ingest.session_id, ingest.raw)
            /\ topic_candidates' =
                 InsertCandidates(topic_candidates,
                                  basicCandidates(ingest.session_id, ingest.raw))
            /\ events' = Append(events, IngestedEvent(ingest.session_id, 1, 1, FALSE))
            /\ ingest' = [ingest EXCEPT
                            !.pc = "done", !.resp = IngestWarning,
                            !.basicCandidates =
                               basicCandidates(ingest.session_id, ingest.raw)]
  /\ UNCHANGED <<sessions, ingestframe>>

\* lines 281-402: raw.split of a raw that is no string throws out of the
\* catch block into the outer one (500); otherwise chunks, candidates, event
\* and the success-with-warning answer
IngestFallback ==
  /\ ingest.pc = "fallback"
  /\ IF ingest.raw.kind # "text"
       THEN /\ ingest' = [ingest EXCEPT !.pc = "done", !.resp = IngestError]
            /\ UNCHANGED <<chunks, topic_candidates, events>>
       ELSE /\ chunks' = chunks \cup basicChunks(ingest.session_id, ingest.raw)
            /\ topic_candidates' =
                 InsertCandidates(topic_candidates,
                                  basicCandidates(ingest.session_id, ingest.raw))
            /\ events' = Append(events, IngestedEvent(ingest.session_id, 1, 1, FALSE))
            /\ ingest' = [ingest EXCEPT
                            !.pc = "done", !.resp = IngestWarning,
                            !.basicCandidates =
                               basicCandidates(ingest.session_id, ingest.raw)]
  /\ UNCHANGED <<sessions, ingestframe>>

IngestNext ==
  \/ \E raw \in RawValues : IngestPost(raw)
  \/ \E kind \in ExitKinds : IngestExecExit(kind)
  \/ IngestExecTimeout
  \/ \E out \in PipelineOutputs : IngestResults(out)
  \/ IngestFallback

SpecIngest == Init /\ [][IngestNext]_vars


\* the ways a pipeline invocation fails
C12_PipelineFailures == {"exit1", "signal", "timeout"}

\* rows the request in flight left for its session
C12_IngestChunks == {c \in chunks : c.session_id = ingest.session_id}

C12_IngestCandidates ==
  {id \in DOMAIN topic_candidates \ CandIds :
     topic_candidates[id].session_id = ingest.session_id}

MaxBatches == 1      \* POST /api/ingest/batch requests in one behaviour
MaxRows == 1         \* data rows of a CSV file

\* a value of the date column: its written form, the two numbers before the
\* year (month, day for the ISO forms), whether it contains < or >, whether
\* it is longer than 50 characters
DateValue(form, a, b, angle, long) ==
  [form |-> form, a |-> a, b |-> b, angle |-> angle, long |-> long]

DateValues ==
  {DateValue("empty", 0, 0, FALSE, FALSE),     \* no value
   DateValue("iso", 1, 15, FALSE, FALSE),      \* 2024-01-15T10:30:00Z
   DateValue("dash", 1, 15, FALSE, FALSE),     \* 2024-01-15
   DateValue("slash", 1, 15, FALSE, FALSE),    \* 01/15/2024
   DateValue("slash", 15, 1, FALSE, FALSE),    \* 15/01/2024
   DateValue("other", 0, 0, FALSE, FALSE),     \* soon
   DateValue("other", 0, 0, TRUE, FALSE),      \* <b>2024</b>
   DateValue("iso", 1, 15, FALSE, TRUE)}       \* an ISO time with 40 decimals

\* new Date('2024-MM-DDT00:00:00Z'), isNaN(getTime()) for an impossible one
ValidDate(month, day) == month \in 1..12 /\ day \in 1..28

DateOrNow(month, day) ==
  IF ValidDate(month, day) THEN [month |-> month, day |-> day] ELSE Now

\* the tests of lines 71, 75, 79 and 84; the last two are the same pattern
LooksIso(v) == v.form = "iso"

LooksDateOnly(v) == v.form = "dash"

LooksUS(v) == v.form = "slash"

LooksUK(v) == v.form = "slash"

\* the parser chain without the guard of line 64
startedAt_NoGuard(v) ==
  IF v.form = "empty" THEN Now
  ELSE IF LooksIso(v) THEN DateOrNow(v.a, v.b)
  ELSE IF LooksDateOnly(v) THEN DateOrNow(v.a, v.b)
  ELSE IF LooksUS(v) THEN DateOrNow(v.a, v.b)
  ELSE IF LooksUK(v) THEN DateOrNow(v.b, v.a)
  ELSE Now

\* lines 58-103
startedAt(v) ==
  IF v.form = "empty" THEN Now
  ELSE IF v.long \/ v.angle THEN Now
  ELSE IF LooksIso(v) THEN DateOrNow(v.a, v.b)
  ELSE IF LooksDateOnly(v) THEN DateOrNow(v.a, v.b)
  ELSE IF LooksUS(v) THEN DateOrNow(v.a, v.b)
  ELSE IF LooksUK(v) THEN DateOrNow(v.b, v.a)
  ELSE Now

\* a content cell: empty, or a text with the first word the generic label is
\* made of
Content(words, sentences, firstWord) ==
  [kind |-> "text", words |-> words, sentences |-> sentences, firstWord |-> firstWord]

EmptyContent == [kind |-> "empty", words |-> {}, sentences |-> <<>>, firstWord |-> Null]

Contents ==
  {EmptyContent,
   Content({"Feature", "timeline"}, <<30, 8, 30, 30>>, Null),
   Content({"Feature", "timeline", "data"}, <<15>>, Null),
   Content({"Feature", "timeline", "user"}, <<30>>, Null),
   Content({}, <<15>>, "Budget")}

\* data rows: every content with a plain date, every date with a plain content
Rows ==
  {[content |-> c, date |-> d] : c \in Contents, d \in {DateValue("dash", 1, 15, FALSE, FALSE)}}
  \cup {[content |-> c, date |-> d] :
          c \in {Content({"Feature", "timeline"}, <<30, 8, 30, 30>>, Null)},
          d \in DateValues}

RowLists == UNION {[1..m -> Rows] : m \in 0..MaxRows}

\* header lines, lower-cased by line 32
Headers ==
  {<<"Title", "content", "date">>, <<"title", "content">>, <<"title", "date">>,
   <<"content", "date">>}

HeaderLower(h) == IF h = "Title" THEN "title" ELSE h

\* formData.get('file'): nothing, or a file; csv is name.endsWith('.csv')
NoFile == [present |-> FALSE, csv |-> FALSE, header |-> <<>>, rows |-> <<>>]

Files ==
  {[present |-> TRUE, csv |-> c, header |-> h, rows |-> r] :
     c \in BOOLEAN, h \in Headers, r \in RowLists} \cup {NoFile}


\* line 32
headers(file) == {HeaderLower(file.header[j]) : j \in 1..Len(file.header)}

\* lines 33-34
missingColumns(file) == {"title", "content"} \ headers(file)

\* lines 46-108: the rows with content become sessions to create; the date
\* cell is read only when the header has a date column
HasContent(row) == row.content.kind # "empty"

ParseRows(file) ==
  LET kept == SelectSeq(file.rows, HasContent)
  IN [j \in 1..Len(kept) |->
        [title |-> "T", content |-> kept[j].content, date |-> kept[j].date,
         startedAt |-> IF "date" \in headers(file) THEN startedAt(kept[j].date)
                                                    ELSE Now]]

\* lines 16-40 and 110-112: the 400 answers, or Null when the file passes
Rejection(file) ==
  IF ~file.present THEN "No file provided"
  ELSE IF ~file.csv THEN "File must be a CSV"
  ELSE IF Len(file.rows) < 1 THEN "CSV must have at least a header and one data row"
  ELSE IF missingColumns(file) # {} THEN "Missing required columns"
  ELSE IF Len(ParseRows(file)) = 0 THEN "No valid sessions found in CSV"
  ELSE Null

\* the responses of the batch route
BatchRejected(msg) ==
  [status |-> 400, error |-> msg, total_processed |-> 0, success_count |-> 0,
   error_count |-> 0, results |-> <<>>]

\* lines 452-459
BatchDone(b) ==
  [status |-> 200, error |-> Null, total_processed |-> Len(b.parsed),
   success_count |-> b.successCount, error_count |-> b.errorCount,
   results |-> b.results]

\* sentences longer than 20 characters (line 328)
LongerThan20(x) == x > 20

meaningfulSentences(content) == SelectSeq(content.sentences, LongerThan20)

\* `find(...) || meaningfulSentences[0]`: undefined when there is no
\* meaningful sentence
Evidence(content) ==
  IF Len(meaningfulSentences(content)) > 0 THEN "sentence" ELSE Null

\* lines 334, 342, 350, 358, 366: keyword group and label
BatchGroups ==
  <<[keys |-> {"product", "development", "feature", "roadmap"},
     label |-> "Product Development"],
    [keys |-> {"user", "feedback", "customer", "training"},
     label |-> "User Experience"],
    [keys |-> {"timeline", "priority", "plan", "schedule"},
     label |-> "Planning & Timeline"],
    [keys |-> {"data", "migration", "import", "csv"},
     label |-> "Data Management"],
    [keys |-> {"team", "collaboration", "meeting", "standup"},
     label |-> "Team Collaboration"]>>

GroupMatches(content, g) == IncludesAny(content, BatchGroups[g].keys)

\* lines 394-396
topicLabel(content) ==
  IF content.firstWord # Null THEN content.firstWord \o " Discussion"
                              ELSE "General Discussion"

RECURSIVE TopicsFrom(_, _, _)
TopicsFrom(sid, content, g) ==
  IF g > Len(BatchGroups) THEN <<>>
  ELSE (IF GroupMatches(content, g)
          THEN <<[session_id |-> sid, topic_id_suggested |-> Null,
                  label |-> BatchGroups[g].label, evidence |-> Evidence(content),
                  why_new |-> "keyword", status |-> "pending"]>>
          ELSE <<>>) \o TopicsFrom(sid, content, g + 1)

\* lines 323-406
batchCandidates(sid, content) ==
  LET found == TopicsFrom(sid, content, 1)
  IN IF Len(found) = 0
       THEN <<[session_id |-> sid, topic_id_suggested |-> Null,
               label |-> topicLabel(content), evidence |-> "sentence",
               why_new |-> "content analysis", status |-> "pending"]>>
       ELSE found

\* lines 416-429
ImportedEvent(sid, nc, nk, ok) ==
  [actor |-> "ui", event_type |-> "session_imported_csv", candidate_id |-> Null,
   session_id |-> sid,
   payload_json |-> [chunks_created |-> nc, candidates_created |-> nk,
                     mentions_created |-> 0, pipeline_success |-> ok]]

\* what the batch route never touches
batchframe == <<scoring_config, topics, topic_aliases, topic_relations, reqvars,
                ingest, scoring_runs, topic_scores, scoresPage, taxonomyPage,
                probe>>


\* a route that creates the first session before it looks at the header
BatchPost_LateCheck(file) ==
  /\ batch.pc \in {"idle", "done"}
  /\ batch.no < MaxBatches
  /\ sessions' = IF file.present /\ file.csv /\ Len(file.rows) > 0
                   THEN InsertSession(sessions, "T", Now, "csv_import")
                   ELSE sessions
  /\ batch' =
       IF Rejection(file) # Null
         THEN [IdleBatch EXCEPT !.pc = "done", !.no = batch.no + 1, !.file = file,
                                !.resp = BatchRejected(Rejection(file))]
         ELSE [IdleBatch EXCEPT !.pc = "insert", !.no = batch.no + 1, !.file = file,
                                !.parsed = ParseRows(file), !.k = 1]
  /\ UNCHANGED <<topic_candidates, chunks, events, batchframe>>

\* lines 11-117: every check and the parsing of all rows come before the
\* first statement that writes
BatchPost(file) ==
  /\ batch.pc \in {"idle", "done"}
  /\ batch.no < MaxBatches
  /\ batch' =
       IF Rejection(file) # Null
         THEN [IdleBatch EXCEPT !.pc = "done", !.no = batch.no + 1, !.file = file,
                                !.resp = BatchRejected(Rejection(file))]
         ELSE [IdleBatch EXCEPT !.pc = "insert", !.no = batch.no + 1, !.file = file,
                                !.parsed = ParseRows(file), !.k = 1]
  /\ UNCHANGED <<sessions, topic_candidates, chunks, events, batchframe>>

\* lines 120-176: the session of row k, then detect-new-topics is started
BatchInsertSession ==
  /\ batch.pc = "insert"
  /\ sessions' = InsertSession(sessions, batch.parsed[batch.k].title,
                               batch.parsed[batch.k].startedAt, "csv_import")
  /\ batch' = [batch EXCEPT !.pc = "detect", !.session_id = NewSessionId(sessions),
                            !.failure = Null,
                            !.made = Append(batch.made, NewSessionId(sessions))]
  /\ UNCHANGED <<topic_candidates, chunks, events, batchframe>>

\* lines 185-198: a command ends by itself
BatchExecExit(kind) ==
  /\ batch.pc \in {"detect", "chunktag"}
  /\ batch' =
       IF kind = "exit0"
         THEN [batch EXCEPT !.pc = IF batch.pc = "detect" THEN "chunktag"
                                                          ELSE "results"]
         ELSE [batch EXCEPT !.pc = "fallback", !.failure = kind]
  /\ UNCHANGED <<sessions, topic_candidates, chunks, events, batchframe>>

\* exec started without its timeout option
BatchExecTimeout_NoTimer ==
  /\ FALSE
  /\ UNCHANGED vars

\* { timeout: 30000 } of lines 187 and 197
BatchExecTimeout ==
  /\ batch.pc \in {"detect", "chunktag"}
  /\ batch' = [batch EXCEPT !.pc = "fallback", !.failure = "timeout"]
  /\ UNCHANGED <<sessions, topic_candidates, chunks, events, batchframe>>

\* lines 120 and 452-459: on to the next session, or the answer
BatchAdvance(b) ==
  IF b.k < Len(b.parsed)
    THEN [b EXCEPT !.pc = "insert", !.k = b.k + 1]
    ELSE [b EXCEPT !.pc = "done", !.resp = BatchDone(b)]

\* lines 431-440: the entry of a session that went through
BatchSucceeded(b, nc, nk, ok) ==
  [b EXCEPT !.results = Append(@, [title |-> b.parsed[b.k].title, success |-> TRUE,
                                   session_id |-> b.session_id,
                                   chunks_created |-> nc, candidates_created |-> nk,
                                   pipeline_success |-> ok]),
            !.successCount = @ + 1]

\* an entry for the failed session, not counted
BatchFailed_NoCount(b, msg) ==
  [b EXCEPT !.results = Append(@, [title |-> b.parsed[b.k].title, success |-> FALSE,
                                   error |-> msg])]

\* lines 133-141: the entry of a session whose insert was refused
BatchFailed(b, msg) ==
  [b EXCEPT !.results = Append(@, [title |-> b.parsed[b.k].title, success |-> FALSE,
                                   error |-> msg]),
            !.errorCount = @ + 1]

\* lines 120-141: the insert of the session of row k returns an error; the
\* loop goes on with the next row
BatchInsertSessionError ==
  /\ batch.pc = "insert"
  /\ batch' = BatchAdvance(BatchFailed(
                             [batch EXCEPT
                                !.session_id = Null, !.failure = Null,
                                !.made = Append(batch.made, Null),
                                !.synthesized = Append(batch.synthesized, <<>>)],
                             "sessionError"))
  /\ UNCHANGED <<sessions, topic_candidates, chunks, events, batchframe>>

\* lines 203-279 and 415-440; JSON.parse of a malformed new_topics.json
\* throws after the chunks were inserted and lands in the fallback
BatchResults(out) ==
  /\ batch.pc = "results"
  /\ chunks' = chunks \cup PipelineChunks(batch.session_id, out)
  /\ IF out.malformed
       THEN /\ batch' = [batch EXCEPT !.pc = "fallback", !.failure = "throw"]
            /\ UNCHANGED <<topic_candidates, events>>
       ELSE /\ topic_candidates' =
                 InsertCandidates(topic_candidates,
                                  PipelineCandidates(batch.session_id, out))
            /\ events' = Append(events, ImportedEvent(batch.session_id, out.chunks,
                                                      Len(out.new_topics),
                                                      out.chunks > 0))
            /\ batch' = BatchAdvance(BatchSucceeded(
                                        [batch EXCEPT
                                           !.synthesized = Append(batch.synthesized, <<>>)],
                                        out.chunks, Len(out.new_topics),
                                        out.chunks > 0))
  /\ UNCHANGED <<sessions, batchframe>>

\* lines 281-440; pipelineSuccess was set when the pipeline's chunks went
\* in, which is the case exactly when the try block threw after them
BatchFallback ==
  /\ batch.pc = "fallback"
  /\ LET content == batch.parsed[batch.k].content
         cands == batchCandidates(batch.session_id, content)
         made == basicChunks(batch.session_id, content)
         nc == Cardinality(made)
         nk == IF CandidatesAccepted(cands) THEN Len(cands) ELSE 0
         ok == batch.failure = "throw"
     IN /\ chunks' = chunks \cup made
        /\ topic_candidates' = InsertCandidates(topic_candidates, cands)
        /\ events' = Append(events, ImportedEvent(batch.session_id, nc, nk, ok))
        /\ batch' = BatchAdvance(BatchSucceeded(
                                   [batch EXCEPT
                                      !.synthesized = Append(batch.synthesized, cands)],
                                   nc, nk, ok))
  /\ UNCHANGED <<sessions, batchframe>>

BatchNext ==
  \/ \E file \in Files : BatchPost(file)
  \/ BatchInsertSession
  \/ \E kind \in ExitKinds : BatchExecExit(kind)
  \/ BatchExecTimeout
  \/ \E out \in PipelineOutputs : BatchResults(out)
  \/ BatchFallback

SpecBatch == Init /\ [][BatchNext]_vars


\* ------------------------------------------------- both routes, with timers
\* a behaviour uses one of the two routes: the handlers share no local, so
\* requests of the other route add nothing to what one request waits for
IngestionNext ==
  \/ \E raw \in RawValues : batch.no = 0 /\ IngestPost(raw)
  \/ \E kind \in ExitKinds : IngestExecExit(kind)
  \/ IngestExecTimeout
  \/ \E out \in PipelineOutputs : IngestResults(out)
  \/ IngestFallback
  \/ \E file \in Files : ingest.no = 0 /\ BatchPost(file)
  \/ BatchInsertSession
  \/ \E kind \in ExitKinds : BatchExecExit(kind)
  \/ BatchExecTimeout
  \/ \E out \in PipelineOutputs : BatchResults(out)
  \/ BatchFallback

\* what happens without anybody's help: a timer that is due fires, and a
\* handler goes on when the statement it awaits has settled
Progress ==
  \/ IngestExecTimeout
  \/ \E out \in PipelineOutputs : IngestResults(out)
  \/ IngestFallback
  \/ BatchInsertSession
  \/ BatchExecTimeout
  \/ \E out \in PipelineOutputs : BatchResults(out)
  \/ BatchFallback

\* nothing makes a child process end by itself, and nothing makes a client
\* send a request
LiveIngestion == Init /\ [][IngestionNext]_vars /\ WF_vars(Progress)

C13_InFlight == {"detect", "chunktag", "results", "fallback", "insert"}

\* a request that stops waiting because of the timer goes to the fallback
C13_TimeoutStep ==
  /\ (ingest.pc \in {"detect", "chunktag"} /\ ingest'.failure = "timeout")
       => ingest'.pc = "fallback"
  /\ (batch.pc \in {"detect", "chunktag"} /\ batch'.failure = "timeout")
       => batch'.pc = "fallback"

\* C13: every ingest request (single or CSV) eventually returns a response:
\* an invocation still running at its timeout is abandoned for the fallback,
\* so the request never waits on the external process for ever.
C13_EventuallyReturns ==
  /\ (ingest.pc \in C13_InFlight) ~> (ingest.pc = "done" /\ ingest.resp.status \in {200, 500})
  /\ (batch.pc \in C13_InFlight) ~> (batch.pc = "done" /\ batch.resp.status \in {200, 400})
  /\ [][C13_TimeoutStep]_vars

C13_Witness ==
  /\ batch.pc = "done"
  /\ batch.failure = "timeout"
  /\ batch.resp.status = 200
  /\ batch.resp.total_processed = 1
  /\ \E e \in 1..Len(events) : events[e].event_type = "session_imported_csv"


\* both routes without the timers' fairness
SpecIngestion == Init /\ [][IngestionNext]_vars

\* labels of a list of synthesized candidates
C14_Labels(cands) == [k \in 1..Len(cands) |-> cands[k].label]

\* the text contains "feature" and "timeline" but not "user"
C14_FeatureTimelineNoUser(text) ==
  includes(text, "feature") /\ includes(text, "timeline") /\ ~includes(text, "user")

\* rows of the CSV request that went through the fallback
C14_FallbackRows == {k \in 1..Len(batch.synthesized) : Len(batch.synthesized[k]) > 0}

\* C14: on the fallback path a text with "feature" and "timeline" but not
\* "user" gets exactly the candidates "Product Development" and
\* "Planning & Timeline", in the single-session and in the CSV route.
C14_ExactlyTwo ==
  /\ (ingest.pc = "done" /\ ingest.resp = IngestWarning
        /\ C14_FeatureTimelineNoUser(ingest.raw))
       => C14_Labels(ingest.basicCandidates)
            = <<"Product Development", "Planning & Timeline">>
  /\ \A k \in C14_FallbackRows :
       C14_FeatureTimelineNoUser(batch.parsed[k].content)
         => C14_Labels(batch.synthesized[k])
              = <<"Product Development", "Planning & Timeline">>

\* C14 amended: the same for a text that contains none of the other keywords
\* either: user, feedback, customer in the single-session route; and
\* training, data, migration, import, csv, team, collaboration, meeting,
\* standup besides in the CSV route.
C14_ExactlyTwoWithoutOtherKeywords ==
  /\ (ingest.pc = "done" /\ ingest.resp = IngestWarning
        /\ includes(ingest.raw, "feature") /\ includes(ingest.raw, "timeline")
        /\ ~IncludesAny(ingest.raw, {"user", "feedback", "customer"}))
       => C14_Labels(ingest.basicCandidates)
            = <<"Product Development", "Planning & Timeline">>
  /\ \A k \in C14_FallbackRows :
       (/\ includes(batch.parsed[k].content, "feature")
        /\ includes(batch.parsed[k].content, "timeline")
        /\ ~IncludesAny(batch.parsed[k].content,
                        {"user", "feedback", "customer", "training", "data",
                         "migration", "import", "csv", "team", "collaboration",
                         "meeting", "standup"}))
         => C14_Labels(batch.synthesized[k])
              = <<"Product Development", "Planning & Timeline">>

C14_Witness ==
  /\ ingest.pc = "done"
  /\ ingest.resp = IngestWarning
  /\ ingest.raw.words = {"Feature", "timeline"}
  /\ C14_Labels(ingest.basicCandidates) = <<"Product Development", "Planning & Timeline">>
  /\ \E id \in DOMAIN topic_candidates \ CandIds :
       topic_candidates[id].topic_id_suggested = "planning-timeline"


\* the session made from row k of the CSV request
C15_SessionOf(k) == CHOOSE s \in sessions : s.session_id = batch.made[k]

\* rows of the CSV request whose date column was read
C15_DatedRows ==
  {k \in 1..Len(batch.made) :
     "date" \in headers(batch.file) /\ batch.parsed[k].date.form # "empty"}

\* the date a value of one of the four supported formats stands for: month
\* and day as written for the ISO forms; month first for a slash date that
\* is a date that way, day first otherwise
C15_Meant(v) ==
  IF v.form \in {"iso", "dash"} THEN [month |-> v.a, day |-> v.b]
  ELSE IF ValidDate(v.a, v.b) THEN [month |-> v.a, day |-> v.b]
  ELSE [month |-> v.b, day |-> v.a]

C15_Supported(v) ==
  /\ ~v.long /\ ~v.angle
  /\ \/ v.form \in {"iso", "dash"} /\ ValidDate(v.a, v.b)
     \/ v.form = "slash" /\ (ValidDate(v.a, v.b) \/ ValidDate(v.b, v.a))

\* C15: a date in ISO, date-only, US month/day/year or UK day/month/year
\* form becomes the session's started_at (15/01/2024 is 15 January); only a
\* value no format parses falls back to the current time.
C15_FourFormats ==
  \A k \in C15_DatedRows :
    LET v == batch.parsed[k].date
    IN /\ C15_Supported(v) => C15_SessionOf(k).started_at = C15_Meant(v)
       /\ C15_SessionOf(k).started_at = Now => ~C15_Supported(v)

\* C16: a date value that contains < or > or is longer than 50 characters
\* is never parsed: the session starts now, and the row is still ingested.
C16_LooksLikeContent ==
  \A k \in 1..Len(batch.parsed) :
    LET v == batch.parsed[k].date
    IN ("date" \in headers(batch.file) /\ (v.angle \/ v.long))
         => /\ batch.parsed[k].startedAt = Now
            /\ k \in 1..Len(batch.made)
                 => /\ \E s \in sessions : s.session_id = batch.made[k]
                    /\ C15_SessionOf(k).started_at = Now
            /\ batch.pc = "done" => k \in 1..Len(batch.made)

C16_Witness ==
  /\ batch.pc = "done"
  /\ batch.resp.status = 200
  /\ batch.resp.total_processed = 1
  /\ "date" \in headers(batch.file)
  /\ batch.parsed[1].date = DateValue("iso", 1, 15, FALSE, TRUE)
  /\ C15_SessionOf(1).started_at = Now
  /\ C15_SessionOf(1).meeting_type = "csv_import"


\* an upload the route must refuse: no file, not a .csv name, no data row,
\* or no title or no content column
C17_Invalid(file) ==
  \/ ~file.present
  \/ ~file.csv
  \/ Len(file.rows) = 0
  \/ "title" \notin headers(file)
  \/ "content" \notin headers(file)

\* the step that takes such an upload answers it and writes no row
C17_Step ==
  (batch'.no # batch.no /\ C17_Invalid(batch'.file))
    => /\ batch'.pc = "done"
       /\ batch'.resp.status = 400
       /\ UNCHANGED <<sessions, chunks, topic_candidates, events>>

\* C17: the CSV is validated before any row is processed: an upload without
\* a title or content column (or without a data row, or not a .csv file)
\* is answered 400 and no session, chunk, candidate or event row is written.
C17_ValidatedFirst ==
  /\ []((batch.no > 0 /\ C17_Invalid(batch.file))
          => (batch.pc = "done" /\ batch.resp.status = 400 /\ batch.made = <<>>))
  /\ [][C17_Step]_vars

C17_Witness ==
  /\ batch.pc = "done"
  /\ batch.resp = BatchRejected("Missing required columns")
  /\ Len(batch.file.rows) = 1
  /\ "content" \notin headers(batch.file)
  /\ sessions = SeedSessions
  /\ chunks = {}
  /\ Len(events) = 0



\* ----------------------------------------------------------- scoring viewer
MaxRuns == 3         \* rows of scoring_runs in one behaviour
Scores == {1, 2}     \* values of total_score

scoresframe ==
  <<scoring_config, topic_candidates, topics, topic_aliases, topic_relations,
    events, reqvars, sessions, chunks, ingest, batch, taxonomyPage, probe>>

\* gen_random_uuid() and now() of a new scoring_runs row
NewRun(runs, run_type, notes) ==
  [run_id |-> "r" \o ToString(Cardinality(runs) + 1), run_type |-> run_type,
   run_at |-> Cardinality(runs) + 1, notes |-> notes]

\* order('run_at', { ascending: false }).limit(1).single(): data is null
\* when there is no row
LatestRun(runs) ==
  IF runs = {} THEN Null
  ELSE (CHOOSE r \in runs : \A q \in runs : q.run_at <= r.run_at).run_id

\* topics!inner(label) and the map of lines 61-70
ScoreView(sc) ==
  [topic_id |-> sc.topic_id,
   topic_label |-> (CHOOSE t \in topics : t.id = sc.topic_id).label,
   total_score |-> sc.total_score]

\* the query without .eq('run_id', ...)
ScoresOf_AllRuns(run_id) == topic_scores

\* .eq('run_id', latestRun.run_id)
ScoresOf(run_id) == {sc \in topic_scores : sc.run_id = run_id}

\* order('total_score', { ascending: false }): the answers the database may
\* give, rows of equal score in either order
OrderedScores(run_id) ==
  LET rows == ScoresOf(run_id)
      m == Cardinality(rows)
  IN {[j \in 1..m |-> ScoreView(f[j])] :
        f \in {g \in [1..m -> rows] :
                 /\ \A a, b \in 1..m : a # b => g[a] # g[b]
                 /\ \A a, b \in 1..m : a < b => g[a].total_score >= g[b].total_score}}

\* useEffect(() => { load(); }, []): load runs to its first await
ScoresMount ==
  /\ scoresPage.pc = "unmounted"
  /\ scoresPage' = [scoresPage EXCEPT !.pc = "queryRun", !.isLoading = TRUE]
  /\ UNCHANGED <<scoring_runs, topic_scores, scoresframe>>

\* lines 42-50: the latest run is read; without one load is over
ScoresQueryRun ==
  /\ scoresPage.pc = "queryRun"
  /\ scoresPage' =
       IF LatestRun(scoring_runs) = Null
         THEN [scoresPage EXCEPT !.pc = "ready", !.isLoading = FALSE,
                                 !.isTriggering = FALSE]
         ELSE [scoresPage EXCEPT !.pc = "queryScores",
                                 !.latestRunId = LatestRun(scoring_runs)]
  /\ UNCHANGED <<scoring_runs, topic_scores, scoresframe>>

\* lines 53-79 and 103-105: the scores of that run are read and shown
ScoresQueryScores ==
  /\ scoresPage.pc = "queryScores"
  /\ \E rows \in OrderedScores(scoresPage.latestRunId) :
       scoresPage' = [scoresPage EXCEPT !.pc = "ready", !.scores = rows,
                                        !.isLoading = FALSE, !.isTriggering = FALSE]
  /\ UNCHANGED <<scoring_runs, topic_scores, scoresframe>>

\* a trigger that also scores the topics for its run
TriggerNewRun_Computes ==
  /\ scoresPage.pc = "ready"
  /\ ~scoresPage.isLoading /\ ~scoresPage.isTriggering
  /\ Cardinality(scoring_runs) < MaxRuns
  /\ scoring_runs' = scoring_runs \cup {NewRun(scoring_runs, "manual", "Triggered from UI")}
  /\ topic_scores' = topic_scores \cup
       {[run_id |-> NewRun(scoring_runs, "manual", "Triggered from UI").run_id,
         topic_id |-> t.id, total_score |-> 1] : t \in topics}
  /\ scoresPage' = [scoresPage EXCEPT !.pc = "triggered", !.isTriggering = TRUE]
  /\ UNCHANGED scoresframe

\* lines 84-97: the button, enabled on the loaded page, inserts the run
TriggerNewRun ==
  /\ scoresPage.pc = "ready"
  /\ ~scoresPage.isLoading /\ ~scoresPage.isTriggering
  /\ Cardinality(scoring_runs) < MaxRuns
  /\ scoring_runs' = scoring_runs \cup {NewRun(scoring_runs, "manual", "Triggered from UI")}
  /\ scoresPage' = [scoresPage EXCEPT !.pc = "triggered", !.isTriggering = TRUE]
  /\ UNCHANGED <<topic_scores, scoresframe>>

\* lines 99-100 and 40: the insert has answered, load() starts
ScoresReload ==
  /\ scoresPage.pc = "triggered"
  /\ scoresPage' = [scoresPage EXCEPT !.pc = "queryRun", !.isLoading = TRUE]
  /\ UNCHANGED <<scoring_runs, topic_scores, scoresframe>>

\* start_scoring_run of the scoring job
StartScoringRun ==
  /\ Cardinality(scoring_runs) < MaxRuns
  /\ scoring_runs' = scoring_runs \cup {NewRun(scoring_runs, "nightly", Null)}
  /\ UNCHANGED <<topic_scores, scoresPage, scoresframe>>

\* write_topic_scores of the scoring job: a score of a topic for a run
WriteTopicScore(run_id, topic_id, total) ==
  /\ \E r \in scoring_runs : r.run_id = run_id
  /\ \A sc \in topic_scores : ~(sc.run_id = run_id /\ sc.topic_id = topic_id)
  /\ topic_scores' = topic_scores \cup
       {[run_id |-> run_id, topic_id |-> topic_id, total_score |-> total]}
  /\ UNCHANGED <<scoring_runs, scoresPage, scoresframe>>

ScoresNext ==
  \/ ScoresMount
  \/ ScoresQueryRun
  \/ ScoresQueryScores
  \/ TriggerNewRun
  \/ ScoresReload
  \/ StartScoringRun
  \/ \E r \in scoring_runs, t \in topics, total \in Scores :
       WriteTopicScore(r.run_id, t.id, total)

SpecScores == Init /\ [][ScoresNext]_vars


\* the rows on the page are in non-increasing order of total_score
C18_Sorted(rows) ==
  \A a, b \in 1..Len(rows) : a < b => rows[a].total_score >= rows[b].total_score

\* every row on the page is a stored score of the run, once each
C18_RowsOf(rows, run_id) ==
  /\ \A j \in 1..Len(rows) :
       \E sc \in topic_scores :
         /\ sc.run_id = run_id
         /\ sc.topic_id = rows[j].topic_id
         /\ sc.total_score = rows[j].total_score
  /\ \A a, b \in 1..Len(rows) : a # b => rows[a].topic_id # rows[b].topic_id

\* load() picks the run with the greatest run_at, and shows all its rows
C18_LoadStep ==
  /\ (scoresPage.pc = "queryRun" /\ scoresPage'.pc = "queryScores")
       => \E r \in scoring_runs :
            /\ r.run_id = scoresPage'.latestRunId
            /\ \A q \in scoring_runs : q.run_at <= r.run_at
  /\ (scoresPage.pc = "queryScores" /\ scoresPage'.pc = "ready")
       => /\ scoresPage'.latestRunId = scoresPage.latestRunId
          /\ Len(scoresPage'.scores)
               = Cardinality({sc \in topic_scores : sc.run_id = scoresPage.latestRunId})

\* C18: the rows load() shows are the score rows of one run, the one with
\* the greatest run_at, in non-increasing order of total_score, and never a
\* row of another run, also when load() runs after a new run was triggered.
C18_LatestRunOnly ==
  /\ [](scoresPage.pc \in {"ready", "triggered"}
          => /\ C18_Sorted(scoresPage.scores)
             /\ C18_RowsOf(scoresPage.scores, scoresPage.latestRunId))
  /\ [][C18_LoadStep]_vars

\* after a trigger the new run is shown with its two scores in order, while
\* the run before has a score of its own
C18_Witness ==
  /\ scoresPage.pc = "ready"
  /\ ~scoresPage.isLoading /\ ~scoresPage.isTriggering
  /\ \E r \in scoring_runs :
       /\ r.run_type = "manual"
       /\ r.run_id = scoresPage.latestRunId
       /\ \A q \in scoring_runs : q.run_at <= r.run_at
  /\ Len(scoresPage.scores) = 2
  /\ scoresPage.scores[1].total_score = 2
  /\ scoresPage.scores[2].total_score = 1
  /\ \E sc \in topic_scores : sc.run_id # scoresPage.latestRunId

\* what a step of the page does to the tables
C19_Step ==
  /\ (scoresPage.pc = "ready" /\ scoresPage'.pc = "triggered")
       => \E r \in scoring_runs' :
            /\ r \notin scoring_runs
            /\ r.run_type = "manual"
            /\ scoring_runs' = scoring_runs \cup {r}
  /\ (scoresPage' # scoresPage)
       => /\ UNCHANGED <<topic_scores, scoring_config, topic_candidates, topics,
                         topic_aliases, topic_relations, events, sessions, chunks>>
          /\ scoresPage.pc # "ready" => UNCHANGED scoring_runs

\* C19: "Trigger new run" inserts exactly one scoring_runs row, with
\* run_type manual, and leaves topic_scores and every other table as they
\* were: it computes and writes no score.
C19_TriggerInsertsOnlyRun == [][C19_Step]_vars

C19_Witness ==
  /\ scoresPage.pc = "triggered"
  /\ scoresPage.isTriggering
  /\ Cardinality(scoring_runs) = Cardinality(SeedRuns) + 1
  /\ \E r \in scoring_runs : r.run_type = "manual" /\ r.notes = "Triggered from UI"
  /\ topic_scores = SeedScores



\* ---------------------------------------------------------- taxonomy viewer
\* the rows of a select without order: the table's rows one after another
RECURSIVE RowsOf(_)
RowsOf(table) ==
  IF table = {} THEN <<>>
  ELSE LET row == CHOOSE r \in table : TRUE
       IN <<row>> \o RowsOf(table \ {row})

\* place of a label in the database's order of text
LabelRank(label) ==
  CASE label = "Billing" -> 1
    [] label = "ops" -> 2
    [] label \in {"pay", "Pay"} -> 3
    [] label = "Tax" -> 4
    [] OTHER -> 5

\* select('*').order('label')
RECURSIVE OrderByLabel(_)
OrderByLabel(table) ==
  IF table = {} THEN <<>>
  ELSE LET row == CHOOSE r \in table :
                    \A q \in table : LabelRank(r.label) <= LabelRank(q.label)
       IN <<row>> \o OrderByLabel(table \ {row})

\* rows.filter(keep).map(field)
RECURSIVE FilterMap(_, _, _, _)
FilterMap(rows, key, id, field) ==
  IF Len(rows) = 0 THEN <<>>
  ELSE (IF Head(rows)[key] = id THEN <<Head(rows)[field]>> ELSE <<>>)
         \o FilterMap(Tail(rows), key, id, field)

\* a graph whose two directions are exchanged
TopicGraph_Swapped(topicsData, aliasesData, relationsData) ==
  [j \in 1..Len(topicsData) |->
     [id |-> topicsData[j].id, label |-> topicsData[j].label,
      aliases |-> FilterMap(aliasesData, "topic_id", topicsData[j].id, "alias"),
      children |-> FilterMap(relationsData, "child_id", topicsData[j].id, "parent_id"),
      parents |-> FilterMap(relationsData, "parent_id", topicsData[j].id, "child_id")]]

\* lines 36-55
TopicGraph(topicsData, aliasesData, relationsData) ==
  [j \in 1..Len(topicsData) |->
     [id |-> topicsData[j].id, label |-> topicsData[j].label,
      aliases |-> FilterMap(aliasesData, "topic_id", topicsData[j].id, "alias"),
      children |-> FilterMap(relationsData, "parent_id", topicsData[j].id, "child_id"),
      parents |-> FilterMap(relationsData, "child_id", topicsData[j].id, "parent_id")]]

taxonomyframe ==
  <<scoring_config, topic_candidates, topics, topic_aliases, topic_relations,
    events, reqvars, sessions, chunks, ingest, batch, scoring_runs, topic_scores,
    scoresPage, probe>>

\* load() is called: lines 23-27, up to the first await
TaxonomyLoad ==
  /\ taxonomyPage.pc \in {"unmounted", "ready"}
  /\ taxonomyPage' = [taxonomyPage EXCEPT !.pc = "topics", !.isLoading = TRUE,
                                          !.data = << <<>>, <<>>, <<>> >>]
  /\ UNCHANGED taxonomyframe

\* line 27
TaxonomySelectTopics ==
  /\ taxonomyPage.pc = "topics"
  /\ taxonomyPage' = [taxonomyPage EXCEPT !.pc = "aliases",
                                          !.data[1] = OrderByLabel(topics)]
  /\ UNCHANGED taxonomyframe

\* line 30
TaxonomySelectAliases ==
  /\ taxonomyPage.pc = "aliases"
  /\ taxonomyPage' = [taxonomyPage EXCEPT !.pc = "relations",
                                          !.data[2] = RowsOf(topic_aliases)]
  /\ UNCHANGED taxonomyframe

\* lines 33-62: the last select, the graph, setTopics
TaxonomySelectRelations ==
  /\ taxonomyPage.pc = "relations"
  /\ LET relationsData == RowsOf(topic_relations)
     IN taxonomyPage' =
          [taxonomyPage EXCEPT
             !.pc = "ready", !.isLoading = FALSE,
             !.data[3] = relationsData,
             !.from = <<taxonomyPage.data[1], taxonomyPage.data[2], relationsData>>,
             !.topics = TopicGraph(taxonomyPage.data[1], taxonomyPage.data[2],
                                   relationsData)]
  /\ UNCHANGED taxonomyframe

MaxCommits == 1      \* approval requests next to the open page

\* the page next to the approvals that change the taxonomy
TaxonomyNext ==
  \/ TaxonomyLoad
  \/ TaxonomySelectTopics
  \/ TaxonomySelectAliases
  \/ TaxonomySelectRelations
  \/ \E len \in 1..MaxDecisions : reqNo < MaxCommits /\ Post(len)
  \/ \E d \in Elements : UpdateStatus(d)
  \/ SelectCandidate
  \/ ApplyTaxonomy
  \/ LogDecision
  \/ LogApplied
  \/ AutoTrigger

SpecTaxonomy == Init /\ [][TaxonomyNext]_vars


\* the elements of a list
C20_Range(list) == {list[j] : j \in 1..Len(list)}

\* the three answers the topics shown were built from are the tables as
\* they are now
C20_Current ==
  /\ C20_Range(taxonomyPage.from[1]) = topics
  /\ C20_Range(taxonomyPage.from[2]) = topic_aliases
  /\ C20_Range(taxonomyPage.from[3]) = topic_relations

\* a list holds the members of a set, once each
C20_ListOf(list, set) == C20_Range(list) = set /\ Len(list) = Cardinality(set)

\* one entry per topic, with its aliases, the child_id of the relations it
\* is the parent of, and the parent_id of the relations it is the child of
C20_Graph ==
  /\ Len(taxonomyPage.topics) = Cardinality(topics)
  /\ \A t \in topics :
       \E j \in 1..Len(taxonomyPage.topics) :
         LET e == taxonomyPage.topics[j]
         IN /\ e.id = t.id
            /\ C20_ListOf(e.aliases,
                          {a.alias : a \in {x \in topic_aliases : x.topic_id = t.id}})
            /\ C20_ListOf(e.children,
                          {r.child_id : r \in {x \in topic_relations : x.parent_id = t.id}})
            /\ C20_ListOf(e.parents,
                          {r.parent_id : r \in {x \in topic_relations : x.child_id = t.id}})

\* a step of the page writes no table, and a call that gets the answers of
\* the call before shows the lists of the call before
C20_Step ==
  /\ (taxonomyPage' # taxonomyPage)
       => UNCHANGED <<topics, topic_aliases, topic_relations, topic_candidates,
                      events, scoring_config, sessions, chunks, scoring_runs,
                      topic_scores>>
  /\ (taxonomyPage.pc = "relations" /\ taxonomyPage'.pc = "ready"
        /\ taxonomyPage'.from = taxonomyPage.from)
       => taxonomyPage'.topics = taxonomyPage.topics

KeyValues(name) == {Null, "", name \o "-1", name \o "-2"}

Environments ==
  {[NEXT_PUBLIC_SUPABASE_URL |-> u, NEXT_PUBLIC_SUPABASE_PUBLISHABLE_KEY |-> a,
    SUPABASE_SECRET_KEY |-> k] :
     u \in {Null, "https://ref.supabase.co"}, a \in KeyValues("pk"),
     k \in KeyValues("sk")}

\* Response.json of a boolean
Json(b) == IF b THEN "true" ELSE "false"

\* a probe that answers with the secret key itself
GET_EchoSecret(env) ==
  [asked |-> TRUE,
   url |-> env.NEXT_PUBLIC_SUPABASE_URL,
   anon |-> Json(Truthy(env.NEXT_PUBLIC_SUPABASE_PUBLISHABLE_KEY)),
   service |-> env.SUPABASE_SECRET_KEY]

\* lines 1-7: `?? null` keeps the url or gives null, `!!` is JS truthiness
GET(env) ==
  [asked |-> TRUE,
   url |-> env.NEXT_PUBLIC_SUPABASE_URL,
   anon |-> Json(Truthy(env.NEXT_PUBLIC_SUPABASE_PUBLISHABLE_KEY)),
   service |-> Json(Truthy(env.SUPABASE_SECRET_KEY))]

probeframe ==
  <<scoring_config, topic_candidates, topics, topic_aliases, topic_relations,
    events, reqvars, sessions, chunks, ingest, batch, scoring_runs, topic_scores,
    scoresPage, taxonomyPage>>

\* deployment k is started with an environment
Start(k, env) ==
  /\ probe.env[k] # env
  /\ probe' = [probe EXCEPT !.env[k] = env, !.resp[k] = NotAsked]
  /\ UNCHANGED probeframe

\* GET /api/env of deployment k
EnvGet(k) ==
  /\ ~probe.resp[k].asked
  /\ probe' = [probe EXCEPT !.resp[k] = GET(probe.env[k])]
  /\ UNCHANGED probeframe

ProbeNext ==
  \/ \E k \in {1, 2}, env \in Environments : Start(k, env)
  \/ \E k \in {1, 2} : EnvGet(k)

SpecProbe == Init /\ [][ProbeNext]_vars

\* a key is set: process.env holds a text for it
C21_IsSet(v) == v # Null /\ v # ""

\* the two environments differ at most in the values of keys that are set
C21_SameButValues ==
  /\ probe.env[1].NEXT_PUBLIC_SUPABASE_URL = probe.env[2].NEXT_PUBLIC_SUPABASE_URL
  /\ C21_IsSet(probe.env[1].NEXT_PUBLIC_SUPABASE_PUBLISHABLE_KEY)
       <=> C21_IsSet(probe.env[2].NEXT_PUBLIC_SUPABASE_PUBLISHABLE_KEY)
  /\ C21_IsSet(probe.env[1].SUPABASE_SECRET_KEY)
       <=> C21_IsSet(probe.env[2].SUPABASE_SECRET_KEY)

\* C21: GET /api/env never returns the value of a key: the answer holds for
\* each of the two keys only whether it is set, so two environments that
\* differ only in the values of keys that are set get the same answer.
C21_NoSecretInResponse ==
  /\ \A k \in {1, 2} :
       probe.resp[k].asked
         => /\ probe.resp[k].anon = "true"
                 <=> C21_IsSet(probe.env[k].NEXT_PUBLIC_SUPABASE_PUBLISHABLE_KEY)
            /\ probe.resp[k].service = "true"
                 <=> C21_IsSet(probe.env[k].SUPABASE_SECRET_KEY)
            /\ probe.resp[k].anon \in {"true", "false"}
            /\ probe.resp[k].service \in {"true", "false"}
  /\ (probe.resp[1].asked /\ probe.resp[2].asked /\ C21_SameButValues)
       => probe.resp[1] = probe.resp[2]

\* both probes answered, for two different secret keys
C21_Witness ==
  /\ probe.resp[1].asked /\ probe.resp[2].asked
  /\ C21_SameButValues
  /\ probe.env[1].SUPABASE_SECRET_KEY = "sk-1"
  /\ probe.env[2].SUPABASE_SECRET_KEY = "sk-2"
  /\ probe.resp[1].service = "true" /\ probe.resp[2].service = "true"



\* ------------------------------------------------- approvals of one candidate
MaxApprovals == 4    \* decisions of the requests that approve candidate c1

\* requests whose decisions all approve candidate c1
ApprovalsNext ==
  \/ \E len \in 1..MaxApprovals : PostWithin(len, MaxRequests, MaxApprovals)
  \/ \E d \in Elements : d.id = "c1" /\ d.status = "approved" /\ UpdateStatus(d)
  \/ SelectCandidate
  \/ ApplyTaxonomy
  \/ LogDecision
  \/ LogApplied
  \/ AutoTrigger

SpecApprovals == Init /\ [][ApprovalsNext]_vars

\* parents of a topic
C22_ParentsOf(id) == {r.parent_id : r \in {x \in topic_relations : x.child_id = id}}

\* an approved subtopic decision between two topics that exist stores its
\* edge, whatever the edges already stored
C22_Step ==
  (pc = "write" /\ pc' = "event" /\ Branch(decisions[i]) = "subtopic"
     /\ decisions[i].targetCoreId \in TopicIds(topics)
     /\ OrElse(candidate.topic_id_suggested, "unknown") \in TopicIds(topics))
    => \E r \in topic_relations' :
         /\ r.parent_id = decisions[i].targetCoreId
         /\ r.child_id = OrElse(candidate.topic_id_suggested, "unknown")

\* C22: no commit checks acyclicity: approved subtopic decisions lead to a
\* state where topic_relations holds a parent/child cycle (here a topic that
\* is its own parent), and a topic can have more than one parent.
C22_NoCycleCheck == [][C22_Step]_vars

\* pay is its own parent and has the parent tax besides
C22_Witness ==
  /\ "pay" \in C22_ParentsOf("pay")
  /\ "tax" \in C22_ParentsOf("pay")
  /\ Cardinality(C22_ParentsOf("pay")) = 2



\* ------------------------------------------------ the fallback's candidates
\* what the claim asks of the candidates synthesized for a text by a route
\* with the keyword groups gs, for the session sid
C23_OnePerGroup(cands, text, gs, sid) ==
  LET matched == Cardinality({g \in gs : IncludesAny(text, g)})
  IN /\ Len(cands) = (IF matched > 0 THEN matched ELSE 1)
     /\ Len(cands) >= 1
     /\ \A j \in 1..Len(cands) :
          /\ cands[j].status = "pending"
          /\ cands[j].session_id = sid
     /\ sid \notin {x.session_id : x \in SeedSessions}
     /\ \E x \in sessions : x.session_id = sid

\* C23: the fallback synthesizes one candidate per keyword group the
\* lowercased text matches, or one generic candidate when none matches: at
\* least one, each pending and carrying the id of the request's session.
C23_CandidatePerGroup ==
  /\ (ingest.pc = "done" /\ ingest.resp = IngestWarning)
       => C23_OnePerGroup(ingest.basicCandidates, ingest.raw,
                          {ProductGroup, FeedbackGroup, PlanningGroup},
                          ingest.session_id)
  /\ \A k \in C14_FallbackRows :
       C23_OnePerGroup(batch.synthesized[k], batch.parsed[k].content,
                       {BatchGroups[g].keys : g \in 1..Len(BatchGroups)},
                       batch.made[k])

\* a text without keyword got the generic candidate
C23_Witness ==
  /\ ingest.pc = "done"
  /\ ingest.resp = IngestWarning
  /\ ingest.raw.words = {}
  /\ C14_Labels(ingest.basicCandidates) = <<"General Discussion">>
  /\ \E id \in DOMAIN topic_candidates \ CandIds :
       /\ topic_candidates[id].label = "General Discussion"
       /\ topic_candidates[id].session_id = ingest.session_id



\* ---------------------------------------------------------------- audit log
\* the rows of the events table stay as they are and new ones come last
C24_AppendOnly ==
  /\ Len(events') >= Len(events)
  /\ SubSeq(events', 1, Len(events)) = events

\* handlers of one statement, saving the settings and triggering a run, log
\* their change in the step that makes it; a commit of decisions that ends
\* well has logged at least one row
C24_Logged ==
  /\ (\/ scoring_config' # scoring_config
      \/ scoring_runs' # scoring_runs /\ scoresPage' # scoresPage)
       => Len(events') > Len(events)
  /\ (pc # "done" /\ pc' = "done" /\ n > 0 /\ resp' = "success")
       => Len(events') > mark

\* C24: the events table is an append-only audit log of every
\* state-changing action: each action that changes stored state (commit,
\* ingestion, chunk/tag trigger, scoring-run trigger, settings save) appends
\* at least one event row, and no action updates or deletes one.
C24_AuditEveryChange == [][C24_AppendOnly /\ C24_Logged]_vars



\* ------------------------------------------- decisions that do not approve
\* the decision the loop is working on
C25_Current == decisions[i]

C25_NotApproving(d) == d # NullDecision /\ d.status \in {"rejected", "pending"}

\* the update of such a decision touches its candidate row only, and there
\* only status, decided_at and approver_id
C25_UpdateStep ==
  (pc = "update" /\ Len(decisions') = Len(decisions) + 1
     /\ C25_NotApproving(decisions'[Len(decisions')]))
    => LET d == decisions'[Len(decisions')]
       IN /\ pc' = "event"
          /\ UNCHANGED <<topics, topic_aliases, topic_relations, events>>
          /\ \A c \in DOMAIN topic_candidates :
               /\ c # d.id => topic_candidates'[c] = topic_candidates[c]
               /\ topic_candidates'[c].label = topic_candidates[c].label
               /\ topic_candidates'[c].topic_id_suggested
                    = topic_candidates[c].topic_id_suggested
          /\ d.id \in DOMAIN topic_candidates
               => topic_candidates'[d.id].status = d.status

\* what follows is the decision's event and nothing else
C25_EventStep ==
  (pc = "event" /\ pc' # "event" /\ C25_NotApproving(C25_Current))
    => /\ Len(events') = Len(events) + 1
       /\ events'[Len(events')].candidate_id = C25_Current.id
       /\ events'[Len(events')].payload_json.to = C25_Current.status
       /\ UNCHANGED <<topics, topic_aliases, topic_relations, topic_candidates>>

\* the statements on the taxonomy are reached for approved decisions only
C25_TaxonomyStep ==
  (pc' \in {"select", "write"}) => decisions'[i'].status = "approved"

\* C25: a decision whose status is rejected or pending changes only its
\* candidate row (status, decided_at, approver_id) and appends its event;
\* topics, topic_aliases and topic_relations stay as they are, whatever
\* action and target the decision carries.
C25_RejectedTouchesNoTaxonomy ==
  [][C25_UpdateStep /\ C25_EventStep /\ C25_TaxonomyStep]_vars

\* a rejected decision that names an alias target has been logged
C25_Witness ==
  /\ pc = "applied"
  /\ Len(decisions) = 1
  /\ decisions[1].status = "rejected"
  /\ decisions[1].action = "alias"
  /\ decisions[1].targetCoreId = "tax"
  /\ topic_candidates[decisions[1].id].status = "rejected"
  /\ topic_aliases = {}
  /\ Written = 1



\* ------------------------------------------- taxonomy rows and their candidate
\* a taxonomy row made from candidate c: the topic the commit created under
\* its suggested id, an alias that is its label, a relation to its topic
C26_MadeFrom(c) ==
  \/ \E t \in topics :
       t.created_by = "ui" /\ t.id = OrElse(topic_candidates[c].topic_id_suggested, "unknown")
  \/ \E a \in topic_aliases : a.alias = topic_candidates[c].label
  \/ \E r \in topic_relations :
       r.child_id = OrElse(topic_candidates[c].topic_id_suggested, "unknown")

\* C26: under any sequence of commit requests, two that decide the same
\* candidate included, a topic, alias or relation row made from a candidate
\* exists only while that candidate's stored status is approved.
C26_TaxonomyOnlyForApproved ==
  \A c \in CandIds : C26_MadeFrom(c) => topic_candidates[c].status = "approved"



\* ------------------------------------------------------- the same batch again
\* the decision a candidate_status_changed row was written for
C27_SentWith(e) ==
  [id |-> e.candidate_id, status |-> e.payload_json.to,
   action |-> e.payload_json.action, targetCoreId |-> e.payload_json.targetCoreId,
   sessionId |-> e.session_id]

C27_IsStatusEvent(e) == e.event_type = "candidate_status_changed"

\* the decisions of the requests that ended before the one in flight began
RECURSIVE C27_Earlier(_)
C27_Earlier(k) ==
  IF k = 0 THEN <<>>
  ELSE C27_Earlier(k - 1)
         \o (IF C27_IsStatusEvent(events[k]) THEN <<C27_SentWith(events[k])>> ELSE <<>>)

\* the second request carries the batch of the first, as far as it was read
C27_Resending ==
  /\ reqNo = 2
  /\ pc \notin {"idle", "done"}
  /\ n = Len(C27_Earlier(mark))
  /\ \A j \in 1..Len(decisions') : decisions'[j] = C27_Earlier(mark)[j]

C27_Step == C27_Resending => UNCHANGED <<topics, topic_aliases, topic_relations>>

\* C27: committing the same batch of decisions a second time leaves topics,
\* topic_aliases and topic_relations exactly as the first commit left them,
\* without a duplicate row; only decided_at of the candidates and the events
\* table change.
C27_ResendChangesNothing == [][C27_Step]_vars



\* ------------------------------------------------- one path for a session
\* chunk rows of a session by the code that wrote them
C28_FromPipeline(sid) == {c \in chunks : c.session_id = sid /\ c.text = "chunks.json"}

C28_FromFallback(sid) ==
  {c \in chunks : c.session_id = sid /\ c.text \in {"sentences", "substring"}}

\* candidate rows of a session by the code that wrote them
C28_CandidatesFromPipeline(sid) ==
  {id \in DOMAIN topic_candidates \ CandIds :
     /\ topic_candidates[id].session_id = sid
     /\ topic_candidates[id].why_new = "Detected by pipeline"}

C28_CandidatesFromFallback(sid) ==
  {id \in DOMAIN topic_candidates \ CandIds :
     /\ topic_candidates[id].session_id = sid
     /\ topic_candidates[id].why_new # "Detected by pipeline"}

\* C28: the rows of a session come from one path: when chunks (or
\* candidates) of the external pipeline were inserted for it, the fallback
\* inserts no chunks (or candidates) for it, whatever fails afterwards.
C28_OnePath ==
  \A s \in sessions :
    /\ C28_FromPipeline(s.session_id) = {} \/ C28_FromFallback(s.session_id) = {}
    /\ \/ C28_CandidatesFromPipeline(s.session_id) = {}
       \/ C28_CandidatesFromFallback(s.session_id) = {}



\* -------------------------------------------------------- reported counts
\* the event rows an ingestion route wrote for a session
C29_ImportEvents(sid) ==
  {k \in 1..Len(events) :
     /\ events[k].session_id = sid
     /\ events[k].event_type \in {"session_ingested", "session_imported_csv"}}

\* rows in the tables for a session
C29_ChunksOf(sid) == {c \in chunks : c.session_id = sid}

C29_CandidatesOf(sid) ==
  {id \in DOMAIN topic_candidates \ CandIds : topic_candidates[id].session_id = sid}

\* C29: chunks_created and candidates_created, as answered and as recorded
\* in the session_ingested / session_imported_csv event, equal the numbers
\* of chunk and candidate rows the request inserted for the session, on the
\* pipeline path and on the fallback path.
C29_CountsMatchRows ==
  \A s \in sessions \ SeedSessions :
    \A k \in C29_ImportEvents(s.session_id) :
      /\ events[k].payload_json.chunks_created = Cardinality(C29_ChunksOf(s.session_id))
      /\ events[k].payload_json.candidates_created
           = Cardinality(C29_CandidatesOf(s.session_id))



\* ------------------------------------------------ a CSV file of several rows
MaxImportRows == 2   \* data rows of the imported file

\* a row without content, which the parser skips, and two rows with content
ImportRows ==
  {[content |-> c, date |-> DateValue("dash", 1, 15, FALSE, FALSE)] :
     c \in {EmptyContent, Content({"Feature", "timeline"}, <<30, 8, 30, 30>>, Null),
            Content({}, <<15>>, "Budget")}}

ImportFiles ==
  {[present |-> TRUE, csv |-> TRUE, header |-> <<"title", "content">>, rows |-> r] :
     r \in UNION {[1..m -> ImportRows] : m \in 1..MaxImportRows}}

\* the batch route when the database may refuse a session
ImportNext ==
  \/ \E file \in ImportFiles : BatchPost(file)
  \/ BatchInsertSession
  \/ BatchInsertSessionError
  \/ \E kind \in ExitKinds : BatchExecExit(kind)
  \/ BatchExecTimeout
  \/ \E out \in PipelineOutputs : BatchResults(out)
  \/ BatchFallback

SpecImport == Init /\ [][ImportNext]_vars

\* the entries of the answer that report a success
C30_Successes(results) == {j \in 1..Len(results) : results[j].success}

\* rows of the session_imported_csv events of a session
C30_ImportedEvents(sid) ==
  {k \in 1..Len(events) :
     events[k].session_id = sid /\ events[k].event_type = "session_imported_csv"}

\* C30: a CSV request that reaches row processing handles its sessions one
\* at a time, and a failure on one does not stop the later ones: in the
\* answer success_count + error_count = total_processed = the number of
\* entries of results, and each success has exactly one session row and
\* exactly one session_imported_csv event.
C30_EveryRowAccounted ==
  /\ batch.pc \in {"insert", "detect", "chunktag", "results", "fallback"}
       => /\ Len(batch.results) = batch.k - 1
          /\ batch.successCount + batch.errorCount = batch.k - 1
  /\ (batch.pc = "done" /\ batch.resp.status = 200)
       => LET answer == batch.resp
          IN /\ answer.total_processed = Len(batch.parsed)
             /\ answer.success_count + answer.error_count = answer.total_processed
             /\ Len(answer.results) = answer.total_processed
             /\ answer.success_count = Cardinality(C30_Successes(answer.results))
             /\ \A j \in C30_Successes(answer.results) :
                  /\ Cardinality({x \in sessions :
                                    x.session_id = answer.results[j].session_id}) = 1
                  /\ Cardinality(C30_ImportedEvents(answer.results[j].session_id)) = 1
                  /\ \A h \in C30_Successes(answer.results) :
                       answer.results[h].session_id = answer.results[j].session_id => h = j

\* the first session was refused and the second one went through
C30_Witness ==
  /\ batch.pc = "done"
  /\ batch.resp.status = 200
  /\ batch.resp.total_processed = 2
  /\ ~batch.resp.results[1].success
  /\ batch.resp.results[2].success
  /\ batch.resp.error_count = 1
  /\ Cardinality(C30_ImportedEvents(batch.resp.results[2].session_id)) = 1

====
